---- MODULE Spec2Model ----
(***************************************************************************)
(* A model of the pycap ICAP client (RFC 3507): the blocking IcapClient    *)
(* and the cooperative AsyncIcapClient.  Byte strings are TLA+ strings;    *)
(* the connection is a byte stream the peer fills after each write and     *)
(* the client drains with reads of nondeterministic size.                  *)
(***************************************************************************)
EXTENDS Integers, Sequences, FiniteSets, TLC

(***************************************************************************)
(* Byte-string primitives (Python bytes / str methods used by the client)  *)
(***************************************************************************)

\* s[i:] and s[:i] with 1-based positions: the bytes from / up to position i
From(s, i) == SubSeq(s, i, Len(s))
Upto(s, i) == SubSeq(s, 1, i)
At(s, i) == SubSeq(s, i, i)

MinOf(S) == CHOOSE x \in S : \A y \in S : x <= y

\* bytes.find(pat) + 1: position of the first occurrence of pat in s, 0 if none
Find(s, pat) ==
    LET hits == {i \in 1..(Len(s) - Len(pat) + 1) : SubSeq(s, i, i + Len(pat) - 1) = pat}
    IN  IF hits = {} THEN 0 ELSE MinOf(hits)

\* pat in s
Contains(s, pat) == Find(s, pat) # 0

\* s.split(sep, maxsplit); maxsplit = -1 splits at every occurrence
RECURSIVE Split(_, _, _)
Split(s, sep, maxsplit) ==
    LET i == Find(s, sep)
    IN  IF maxsplit = 0 \/ i = 0
        THEN <<s>>
        ELSE <<Upto(s, i - 1)>> \o Split(From(s, i + Len(sep)), sep, maxsplit - 1)

\* ASCII whitespace removed by strip()
Whitespace == {" ", "\t", "\n", "\r"}

RECURSIVE LStrip(_)
LStrip(s) == IF Len(s) > 0 /\ At(s, 1) \in Whitespace THEN LStrip(From(s, 2)) ELSE s

RECURSIVE RStrip(_)
RStrip(s) ==
    IF Len(s) > 0 /\ At(s, Len(s)) \in Whitespace THEN RStrip(Upto(s, Len(s) - 1)) ELSE s

\* s.strip()
Strip(s) == RStrip(LStrip(s))

UpperCase == "ABCDEFGHIJKLMNOPQRSTUVWXYZ"
LowerCase == "abcdefghijklmnopqrstuvwxyz"

LowerChar(c) ==
    LET i == Find(UpperCase, c) IN IF i = 0 THEN c ELSE At(LowerCase, i)

\* s.lower()
RECURSIVE Lower(_)
Lower(s) == IF s = "" THEN "" ELSE LowerChar(At(s, 1)) \o Lower(From(s, 2))

HexDigits == "0123456789ABCDEF"
HexDigitsLower == "0123456789abcdef"

\* value of one digit in the given base, -1 if the byte is no digit of that base
DigitValue(c, base) ==
    LET u == Find(HexDigits, c)
        l == Find(HexDigitsLower, c)
        v == IF u # 0 THEN u - 1 ELSE IF l # 0 THEN l - 1 ELSE -1
    IN  IF v >= 0 /\ v < base THEN v ELSE -1

RECURSIVE AllDigits(_, _)
AllDigits(s, base) ==
    \/ s = ""
    \/ DigitValue(At(s, 1), base) >= 0 /\ AllDigits(From(s, 2), base)

RECURSIVE DigitsValue(_, _)
DigitsValue(s, base) ==
    IF s = "" THEN 0
    ELSE DigitsValue(Upto(s, Len(s) - 1), base) * base + DigitValue(At(s, Len(s)), base)

\* the text of int(s, base) after strip(), with sign and (base 16) 0x prefix removed
Unsigned(s) ==
    LET t == Strip(s)
    IN  IF Len(t) > 0 /\ At(t, 1) \in {"+", "-"} THEN From(t, 2) ELSE t

Magnitude(s, base) ==
    LET u == Unsigned(s)
    IN  IF base = 16 /\ Len(u) >= 2 /\ Upto(u, 2) \in {"0x", "0X"} THEN From(u, 3) ELSE u

\* int(s, base) succeeds (does not raise ValueError)
IsInt(s, base) == Magnitude(s, base) # "" /\ AllDigits(Magnitude(s, base), base)

\* int(s, base) where it succeeds
ToInt(s, base) ==
    LET t == Strip(s)
        v == DigitsValue(Magnitude(s, base), base)
    IN  IF Len(t) > 0 /\ At(t, 1) = "-" THEN 0 - v ELSE v

RECURSIVE NatToStr(_, _)
NatToStr(n, base) ==
    IF n < base THEN At(HexDigits, n + 1)
    ELSE NatToStr(n \div base, base) \o At(HexDigits, (n % base) + 1)

\* str(n) and f"{n:X}"
IntToStr(n) == IF n < 0 THEN "-" \o NatToStr(0 - n, 10) ELSE NatToStr(n, 10)
HexStr(n) == IF n < 0 THEN "-" \o NatToStr(0 - n, 16) ELSE NatToStr(n, 16)

\* Python slices body[:n] and body[n:] (n may be negative)
SliceTo(s, n) ==
    IF n >= 0 THEN Upto(s, IF n < Len(s) THEN n ELSE Len(s))
    ELSE Upto(s, IF Len(s) + n > 0 THEN Len(s) + n ELSE 0)

SliceFrom(s, n) ==
    IF n >= 0 THEN From(s, n + 1)
    ELSE From(s, (IF Len(s) + n > 0 THEN Len(s) + n ELSE 0) + 1)

(***************************************************************************)
(* Protocol constants and the request builder (IcapProtocol)               *)
(***************************************************************************)

DEFAULT_PORT == 1344
BUFFER_SIZE == 8192
CRLF == "\r\n"
ICAP_VERSION == "ICAP/1.0"
USER_AGENT == "Python-ICAP-Client/1.0"
header_end_marker == "\r\n\r\n"

\* the client's address and the service the calls name
Host == "h"
Service == "avscan"
HostPort == Host \o ":" \o IntToStr(DEFAULT_PORT)

\* a store that adds the pair even when the key is already there
DictSetAppend(d, k, v) == Append(d, <<k, v>>)

\* an insertion-ordered dict as a sequence of <<key, value>>: d[k] = v
DictSet(d, k, v) ==
    IF \E i \in 1..Len(d) : d[i][1] = k
    THEN [i \in 1..Len(d) |-> IF d[i][1] = k THEN <<k, v>> ELSE d[i]]
    ELSE Append(d, <<k, v>>)

RECURSIVE HeaderLines(_)
HeaderLines(headers) ==
    IF headers = <<>> THEN ""
    ELSE Head(headers)[1] \o ": " \o Head(headers)[2] \o CRLF \o HeaderLines(Tail(headers))

\* IcapProtocol._build_request
BuildRequest(request_line, headers) == request_line \o HeaderLines(headers) \o CRLF

RequestLine(method) ==
    method \o " icap://" \o HostPort \o "/" \o Service \o " " \o ICAP_VERSION \o CRLF

\* the chunk of a non-empty body: hex size, CRLF, data, CRLF
EncodeChunk(data) == HexStr(Len(data)) \o CRLF \o data \o CRLF
ChunkTerminator == "0" \o CRLF \o CRLF

(***************************************************************************)
(* IcapResponse.parse                                                      *)
(***************************************************************************)

StatusParts(data) ==
    LET header_section == Split(data, header_end_marker, 1)[1]
        lines == Split(header_section, CRLF, -1)
    IN  Split(lines[1], " ", 2)

\* parse(data) returns (raises no ValueError)
ParseOk(data) == Len(StatusParts(data)) >= 3 /\ IsInt(StatusParts(data)[2], 10)

RECURSIVE ParseHeaders(_, _)
ParseHeaders(lines, headers) ==
    IF lines = <<>> THEN headers
    ELSE LET line == Head(lines)
             kv == Split(line, ":", 1)
         IN  IF Contains(line, ":")
             THEN ParseHeaders(Tail(lines), DictSet(headers, Strip(kv[1]), Strip(kv[2])))
             ELSE ParseHeaders(Tail(lines), headers)

Parse(data) ==
    LET parts == Split(data, header_end_marker, 1)
        lines == Split(parts[1], CRLF, -1)
    IN  [status_code    |-> ToInt(StatusParts(data)[2], 10),
         status_message |-> StatusParts(data)[3],
         headers        |-> ParseHeaders(Tail(lines), <<>>),
         body           |-> IF Len(parts) > 1 THEN parts[2] ELSE ""]

NoResponse == [status_code |-> 0, status_message |-> "", headers |-> <<>>, body |-> ""]

\* the range check with its bounds shifted by one: 500 passes, 600 is an error
IsServerErrorShifted(status_code) == 500 < status_code /\ status_code <= 600

\* the check made on a parsed response before it is returned
IsServerError(status_code) == 500 <= status_code /\ status_code < 600

(***************************************************************************)
(* The receive algorithm: header scan and chunked decoding                 *)
(***************************************************************************)

NoLength == [content_length |-> 0, has_length |-> FALSE, is_chunked |-> FALSE,
             value_error |-> FALSE]

\* the loop over the header lines in _send_and_receive / async _receive_response:
\* every Content-Length line is converted with int() (the last one wins, a
\* non-integer one raises ValueError), Transfer-Encoding: chunked is noted
RECURSIVE ScanLines(_, _)
ScanLines(lines, acc) ==
    IF lines = <<>> THEN acc
    ELSE LET line == Head(lines)
             kv == Split(line, ":", 1)
             key_lower == Lower(Strip(kv[1]))
             value_stripped == Lower(Strip(kv[2]))
         IN  IF ~Contains(line, ":") THEN ScanLines(Tail(lines), acc)
             ELSE IF key_lower = "content-length"
             THEN IF IsInt(kv[2], 10)
                  THEN ScanLines(Tail(lines),
                                 [acc EXCEPT !.content_length = ToInt(kv[2], 10),
                                             !.has_length = TRUE])
                  ELSE [acc EXCEPT !.value_error = TRUE]
             ELSE IF key_lower = "transfer-encoding" /\ Contains(value_stripped, "chunked")
             THEN ScanLines(Tail(lines), [acc EXCEPT !.is_chunked = TRUE])
             ELSE ScanLines(Tail(lines), acc)

\* the loop of the blocking _receive_response: it stops at the first
\* Content-Length line and knows no Transfer-Encoding
RECURSIVE ScanLinesFirst(_, _)
ScanLinesFirst(lines, acc) ==
    IF lines = <<>> THEN acc
    ELSE LET line == Head(lines)
             kv == Split(line, ":", 1)
         IN  IF ~Contains(line, ":") THEN ScanLinesFirst(Tail(lines), acc)
             ELSE IF Lower(Strip(kv[1])) = "content-length"
             THEN IF IsInt(kv[2], 10)
                  THEN [acc EXCEPT !.content_length = ToInt(kv[2], 10), !.has_length = TRUE]
                  ELSE [acc EXCEPT !.value_error = TRUE]
             ELSE ScanLinesFirst(Tail(lines), acc)

\* the header lines after the status line of a buffer that holds the marker
HeaderLinesOf(data) ==
    Tail(Split(Split(data, header_end_marker, 1)[1], CRLF, -1))

\* the bytes already read past the marker
BodyStart(data) == Split(data, header_end_marker, 1)[2]

\* header_section + header_end_marker
HeaderPart(data) == Split(data, header_end_marker, 1)[1] \o header_end_marker

ScanHeaders(routine, data) ==
    IF routine = "scan_stream_chunked"
    THEN ScanLinesFirst(HeaderLinesOf(data), NoLength)
    ELSE ScanLines(HeaderLinesOf(data), NoLength)

\* a decoder that takes the whole size line, extension included, as the size
RECURSIVE DecodeChunksKeepExtension(_, _, _, _)
DecodeChunksKeepExtension(at, buf, decoded, size) ==
    IF at = "line"
    THEN IF ~Contains(buf, CRLF)
         THEN [at |-> "line", buffer |-> buf, body |-> decoded, chunk_size |-> 0,
               how |-> "reading"]
         ELSE LET size_line == Split(buf, CRLF, 1)[1]
                  rest == Split(buf, CRLF, 1)[2]
              IN  IF ~IsInt(size_line, 16)
                  THEN [at |-> "return", buffer |-> rest, body |-> decoded,
                        chunk_size |-> 0, how |-> "invalid_size"]
                  ELSE IF ToInt(size_line, 16) = 0
                  THEN [at |-> "return", buffer |-> rest, body |-> decoded,
                        chunk_size |-> 0, how |-> "zero_chunk"]
                  ELSE DecodeChunksKeepExtension("data", rest, decoded, ToInt(size_line, 16))
    ELSE IF Len(buf) < size + 2
         THEN [at |-> "data", buffer |-> buf, body |-> decoded, chunk_size |-> size,
               how |-> "reading"]
         ELSE DecodeChunksKeepExtension("line", SliceFrom(buf, size + 2),
                                        decoded \o SliceTo(buf, size), 0)

\* _read_chunked_body run on the bytes buffered so far, up to its next read or
\* its return: at "line" it needs a CRLF in the buffer, at "data" it needs
\* chunk_size + 2 bytes.  how = the return statement taken
RECURSIVE DecodeChunks(_, _, _, _)
DecodeChunks(at, buf, decoded, size) ==
    IF at = "line"
    THEN IF ~Contains(buf, CRLF)
         THEN [at |-> "line", buffer |-> buf, body |-> decoded, chunk_size |-> 0,
               how |-> "reading"]
         ELSE LET size_line == Split(buf, CRLF, 1)[1]
                  rest == Split(buf, CRLF, 1)[2]
                  size_text == Split(size_line, ";", 1)[1]
              IN  IF ~IsInt(size_text, 16)
                  THEN [at |-> "return", buffer |-> rest, body |-> decoded,
                        chunk_size |-> 0, how |-> "invalid_size"]
                  ELSE IF ToInt(size_text, 16) = 0
                  THEN [at |-> "return", buffer |-> rest, body |-> decoded,
                        chunk_size |-> 0, how |-> "zero_chunk"]
                  ELSE DecodeChunks("data", rest, decoded, ToInt(size_text, 16))
    ELSE IF Len(buf) < size + 2
         THEN [at |-> "data", buffer |-> buf, body |-> decoded, chunk_size |-> size,
               how |-> "reading"]
         ELSE DecodeChunks("line", SliceFrom(buf, size + 2), decoded \o SliceTo(buf, size), 0)

\* a chunk whose size is written in decimal
EncodeChunkedDecimal(data) ==
    IF data = "" THEN "" ELSE IntToStr(Len(data)) \o CRLF \o data \o CRLF

\* IcapProtocol._encode_chunked: nothing for empty data, else one chunk
EncodeChunked(data) ==
    IF data = "" THEN "" ELSE HexStr(Len(data)) \o CRLF \o data \o CRLF

(***************************************************************************)
(* The receive routines run on a given sequence of read results            *)
(***************************************************************************)

\* read results: a piece of data, an empty read, a read that times out
DataRead(data) == [kind |-> "data", data |-> data]
EmptyRead == [kind |-> "eof", data |-> ""]
TimeoutRead == [kind |-> "timeout", data |-> ""]

\* recv(n) / read(n) on the results still to come: at most n bytes of a piece
\* are returned, the rest of the piece is returned by the next read
Taken(rest, n) ==
    IF Head(rest).kind = "data" /\ Len(Head(rest).data) > n
    THEN Upto(Head(rest).data, n)
    ELSE Head(rest).data

AfterTake(rest, n) ==
    IF Head(rest).kind = "data" /\ Len(Head(rest).data) > n
    THEN <<DataRead(From(Head(rest).data, n + 1))>> \o Tail(rest)
    ELSE Tail(rest)

\* where a loop of reads stands: "done" (the loop ended), "timeout" (a read
\* timed out), "blocked" (the next read result is not known yet)
Reading(rest, n, data, end) == [rest |-> rest, n |-> n, data |-> data, end |-> end]

\* what a receive routine makes of the read results: the outcome, the parsed
\* response and the number of reads made
Received(outcome, parsed_response, n) ==
    [outcome |-> outcome, response |-> parsed_response, reads |-> n]

\* --- IcapClient._send_and_receive -----------------------------------------

RECURSIVE SyncHeaderReads(_, _, _)
SyncHeaderReads(rest, n, response_data) ==
    IF Contains(response_data, header_end_marker) THEN Reading(rest, n, response_data, "done")
    ELSE IF rest = <<>> THEN Reading(rest, n, response_data, "blocked")
    ELSE IF Head(rest).kind = "timeout"
    THEN Reading(Tail(rest), n + 1, response_data, "timeout")
    ELSE IF Head(rest).kind = "eof" THEN Reading(Tail(rest), n + 1, response_data, "done")
    ELSE SyncHeaderReads(AfterTake(rest, BUFFER_SIZE), n + 1,
                         response_data \o Taken(rest, BUFFER_SIZE))

RECURSIVE SyncBodyReads(_, _, _, _, _)
SyncBodyReads(rest, n, response_data, bytes_read, content_length) ==
    LET want == MinOf({BUFFER_SIZE, content_length - bytes_read})
    IN  IF ~(bytes_read < content_length) THEN Reading(rest, n, response_data, "done")
        ELSE IF rest = <<>> THEN Reading(rest, n, response_data, "blocked")
        ELSE IF Head(rest).kind = "timeout"
        THEN Reading(Tail(rest), n + 1, response_data, "timeout")
        ELSE IF Head(rest).kind = "eof"
        THEN Reading(Tail(rest), n + 1, response_data, "done")
        ELSE SyncBodyReads(AfterTake(rest, want), n + 1, response_data \o Taken(rest, want),
                           bytes_read + Len(Taken(rest, want)), content_length)

\* _read_chunked_body: decoded holds what DecodeChunks made of the buffer
RECURSIVE SyncChunkReads(_, _, _)
SyncChunkReads(rest, n, decoded) ==
    IF decoded.at = "return" THEN Reading(rest, n, decoded.body, "done")
    ELSE IF rest = <<>> THEN Reading(rest, n, decoded.body, "blocked")
    ELSE IF Head(rest).kind = "timeout"
    THEN Reading(Tail(rest), n + 1, decoded.body, "timeout")
    ELSE IF Head(rest).kind = "eof" THEN Reading(Tail(rest), n + 1, decoded.body, "done")
    ELSE SyncChunkReads(AfterTake(rest, BUFFER_SIZE), n + 1,
                        DecodeChunks(decoded.at, decoded.buffer \o Taken(rest, BUFFER_SIZE),
                                     decoded.body, decoded.chunk_size))

\* a loop of reads that did not end: the routine raises or waits
Unfinished(reading) ==
    Received(IF reading.end = "timeout" THEN "IcapTimeoutError" ELSE "blocked",
             NoResponse, reading.n)

SyncFinish(response_data, n) ==
    IF ~ParseOk(response_data) THEN Received("IcapProtocolError", NoResponse, n)
    ELSE IF IsServerError(Parse(response_data).status_code)
    THEN Received("IcapServerError", Parse(response_data), n)
    ELSE Received("Response", Parse(response_data), n)

SyncReceive(reads) ==
    LET head == SyncHeaderReads(reads, 0, "")
        found == ScanLines(HeaderLinesOf(head.data), NoLength)
        body_start == BodyStart(head.data)
        body == SyncBodyReads(head.rest, head.n, HeaderPart(head.data) \o body_start,
                              Len(body_start), found.content_length)
        chunked == SyncChunkReads(head.rest, head.n, DecodeChunks("line", body_start, "", 0))
    IN  IF head.end # "done" THEN Unfinished(head)
        ELSE IF ~Contains(head.data, header_end_marker) THEN SyncFinish(head.data, head.n)
        ELSE IF found.value_error THEN Received("ValueError", NoResponse, head.n)
        ELSE IF found.has_length
        THEN IF body.end # "done" THEN Unfinished(body) ELSE SyncFinish(body.data, body.n)
        ELSE IF found.is_chunked
        THEN IF chunked.end # "done" THEN Unfinished(chunked)
             ELSE SyncFinish(HeaderPart(head.data) \o chunked.data, chunked.n)
        ELSE SyncFinish(head.data, head.n)

\* --- AsyncIcapClient._send_and_receive with _receive_response --------------

RECURSIVE AsyncScanLines(_, _)
AsyncScanLines(lines, acc) ==
    IF lines = <<>> THEN acc
    ELSE LET line == Head(lines)
             kv == Split(line, ":", 1)
             key_lower == Lower(Strip(kv[1]))
             value_stripped == Lower(Strip(kv[2]))
         IN  IF ~Contains(line, ":") THEN AsyncScanLines(Tail(lines), acc)
             ELSE IF key_lower = "content-length"
             THEN IF IsInt(kv[2], 10)
                  THEN AsyncScanLines(Tail(lines),
                                      [acc EXCEPT !.content_length = ToInt(kv[2], 10),
                                                  !.has_length = TRUE])
                  ELSE [acc EXCEPT !.value_error = TRUE]
             ELSE IF key_lower = "transfer-encoding" /\ Contains(value_stripped, "chunked")
             THEN AsyncScanLines(Tail(lines), [acc EXCEPT !.is_chunked = TRUE])
             ELSE AsyncScanLines(Tail(lines), acc)

RECURSIVE AsyncHeaderReads(_, _, _)
AsyncHeaderReads(rest, n, response_data) ==
    IF Contains(response_data, header_end_marker) THEN Reading(rest, n, response_data, "done")
    ELSE IF rest = <<>> THEN Reading(rest, n, response_data, "blocked")
    ELSE IF Head(rest).kind = "timeout"
    THEN Reading(Tail(rest), n + 1, response_data, "timeout")
    ELSE IF Taken(rest, BUFFER_SIZE) = "" THEN Reading(Tail(rest), n + 1, response_data, "done")
    ELSE AsyncHeaderReads(AfterTake(rest, BUFFER_SIZE), n + 1,
                          response_data \o Taken(rest, BUFFER_SIZE))

RECURSIVE AsyncBodyReads(_, _, _, _, _)
AsyncBodyReads(rest, n, response_data, bytes_read, content_length) ==
    LET want == MinOf({BUFFER_SIZE, content_length - bytes_read})
    IN  IF ~(bytes_read < content_length) THEN Reading(rest, n, response_data, "done")
        ELSE IF rest = <<>> THEN Reading(rest, n, response_data, "blocked")
        ELSE IF Head(rest).kind = "timeout"
        THEN Reading(Tail(rest), n + 1, response_data, "timeout")
        ELSE IF Taken(rest, want) = "" THEN Reading(Tail(rest), n + 1, response_data, "done")
        ELSE AsyncBodyReads(AfterTake(rest, want), n + 1, response_data \o Taken(rest, want),
                            bytes_read + Len(Taken(rest, want)), content_length)

\* async _read_chunked_body on the bytes buffered so far, up to its next read
\* or its return
RECURSIVE AsyncDecodeChunks(_, _, _, _)
AsyncDecodeChunks(at, buf, decoded, size) ==
    IF at = "line"
    THEN IF ~Contains(buf, CRLF)
         THEN [at |-> "line", buffer |-> buf, body |-> decoded, chunk_size |-> 0]
         ELSE LET size_line == Split(buf, CRLF, 1)[1]
                  buffer == Split(buf, CRLF, 1)[2]
                  size_text == Split(size_line, ";", -1)[1]
              IN  IF ~IsInt(size_text, 16)
                  THEN [at |-> "return", buffer |-> buffer, body |-> decoded, chunk_size |-> 0]
                  ELSE IF ToInt(size_text, 16) = 0
                  THEN [at |-> "return", buffer |-> buffer, body |-> decoded, chunk_size |-> 0]
                  ELSE AsyncDecodeChunks("data", buffer, decoded, ToInt(size_text, 16))
    ELSE IF Len(buf) < size + 2
         THEN [at |-> "data", buffer |-> buf, body |-> decoded, chunk_size |-> size]
         ELSE AsyncDecodeChunks("line", SliceFrom(buf, size + 2),
                                decoded \o SliceTo(buf, size), 0)

RECURSIVE AsyncChunkReads(_, _, _)
AsyncChunkReads(rest, n, decoded) ==
    IF decoded.at = "return" THEN Reading(rest, n, decoded.body, "done")
    ELSE IF rest = <<>> THEN Reading(rest, n, decoded.body, "blocked")
    ELSE IF Head(rest).kind = "timeout"
    THEN Reading(Tail(rest), n + 1, decoded.body, "timeout")
    ELSE IF Taken(rest, BUFFER_SIZE) = "" THEN Reading(Tail(rest), n + 1, decoded.body, "done")
    ELSE AsyncChunkReads(AfterTake(rest, BUFFER_SIZE), n + 1,
                         AsyncDecodeChunks(decoded.at,
                                           decoded.buffer \o Taken(rest, BUFFER_SIZE),
                                           decoded.body, decoded.chunk_size))

\* a parse that returns whatever status the response carries
AsyncFinishUnchecked(response_data, n) ==
    IF ~ParseOk(response_data) THEN Received("IcapProtocolError", NoResponse, n)
    ELSE Received("Response", Parse(response_data), n)

AsyncFinish(response_data, n) ==
    IF ~ParseOk(response_data) THEN Received("IcapProtocolError", NoResponse, n)
    ELSE IF IsServerError(Parse(response_data).status_code)
    THEN Received("IcapServerError", Parse(response_data), n)
    ELSE Received("Response", Parse(response_data), n)

AsyncReceive(reads) ==
    LET head == AsyncHeaderReads(reads, 0, "")
        header_section == Split(head.data, header_end_marker, 1)[1]
        body_start == Split(head.data, header_end_marker, 1)[2]
        found == AsyncScanLines(Tail(Split(header_section, CRLF, -1)), NoLength)
        body == AsyncBodyReads(head.rest, head.n,
                               header_section \o header_end_marker \o body_start,
                               Len(body_start), found.content_length)
        chunked == AsyncChunkReads(head.rest, head.n,
                                   AsyncDecodeChunks("line", body_start, "", 0))
    IN  IF head.end # "done" THEN Unfinished(head)
        ELSE IF ~Contains(head.data, header_end_marker) THEN AsyncFinish(head.data, head.n)
        ELSE IF found.value_error THEN Received("ValueError", NoResponse, head.n)
        ELSE IF found.has_length
        THEN IF body.end # "done" THEN Unfinished(body) ELSE AsyncFinish(body.data, body.n)
        ELSE IF found.is_chunked
        THEN IF chunked.end # "done" THEN Unfinished(chunked)
             ELSE AsyncFinish(header_section \o header_end_marker \o chunked.data, chunked.n)
        ELSE AsyncFinish(head.data, head.n)

\* both routines run on the same read results
Scripted(reads) ==
    [reads |-> reads, sync |-> SyncReceive(reads), async |-> AsyncReceive(reads)]

(***************************************************************************)
(* Requests built by options, reqmod, respmod and _send_with_preview       *)
(***************************************************************************)

\* http_response split at the first blank line: <<headers, body>>
ResponseHeaders(http_response) ==
    IF Contains(http_response, header_end_marker)
    THEN Split(http_response, header_end_marker, 1)[1] \o header_end_marker
    ELSE http_response

ResponseBody(http_response) ==
    IF Contains(http_response, header_end_marker)
    THEN Split(http_response, header_end_marker, 1)[2]
    ELSE ""

RECURSIVE DictUpdate(_, _)
DictUpdate(d, extra) ==
    IF extra = <<>> THEN d
    ELSE DictUpdate(DictSet(d, Head(extra)[1], Head(extra)[2]), Tail(extra))

OptionsRequest ==
    BuildRequest(RequestLine("OPTIONS"),
                 << <<"Host", HostPort>>, <<"User-Agent", USER_AGENT>>,
                    <<"Encapsulated", "null-body=0">> >>)

\* offsets counted from the start of the response, whatever precedes it
RespmodEncapsulatedFromResponse(http_request, http_res_headers) ==
    IF http_request # ""
    THEN "req-hdr=0, res-hdr=" \o IntToStr(Len(http_request)) \o ", res-body="
             \o IntToStr(Len(http_res_headers))
    ELSE "res-hdr=0, res-body=" \o IntToStr(Len(http_res_headers))

RespmodEncapsulated(http_request, http_res_headers) ==
    IF http_request # ""
    THEN "req-hdr=0, res-hdr=" \o IntToStr(Len(http_request)) \o ", res-body="
             \o IntToStr(Len(http_request) + Len(http_res_headers))
    ELSE "res-hdr=0, res-body=" \o IntToStr(Len(http_res_headers))

\* the ICAP head and the encapsulated headers of a RESPMOD request
RespmodHead(http_request, http_response, headers, has_preview, preview) ==
    LET http_res_headers == ResponseHeaders(http_response)
        base == << <<"Host", HostPort>>, <<"User-Agent", USER_AGENT>>, <<"Allow", "204">>,
                   <<"Encapsulated", RespmodEncapsulated(http_request, http_res_headers)>> >>
        with_preview == IF has_preview
                        THEN DictSet(base, "Preview", IntToStr(preview))
                        ELSE base
    IN  BuildRequest(RequestLine("RESPMOD"), DictUpdate(with_preview, headers))
            \o http_request \o http_res_headers

\* the body of a RESPMOD request sent without preview: one chunk, then the terminator
RespmodBody(http_res_body) ==
    (IF http_res_body # "" THEN EncodeChunk(http_res_body) ELSE "") \o ChunkTerminator

ReqmodRequest(http_request, http_body, headers) ==
    LET base == << <<"Host", HostPort>>, <<"User-Agent", USER_AGENT>>, <<"Allow", "204">>,
                   <<"Encapsulated",
                     IF http_body # ""
                     THEN "req-hdr=0, req-body=" \o IntToStr(Len(http_request))
                     ELSE "req-hdr=0, null-body=" \o IntToStr(Len(http_request))>> >>
    IN  BuildRequest(RequestLine("REQMOD"), DictUpdate(base, headers)) \o http_request
            \o (IF http_body # "" THEN EncodeChunk(http_body) \o ChunkTerminator ELSE "")

\* _send_with_preview: the two portions of the body and the preview chunk
PreviewData(body, preview_size) == SliceTo(body, preview_size)
RemainderData(body, preview_size) == SliceFrom(body, preview_size)
IsComplete(body, preview_size) == Len(body) <= preview_size

PreviewChunk(body, preview_size) ==
    LET preview_data == PreviewData(body, preview_size)
    IN  IF IsComplete(body, preview_size)
        THEN HexStr(Len(preview_data)) \o "; ieof" \o CRLF \o preview_data \o CRLF
                 \o ChunkTerminator
        ELSE HexStr(Len(preview_data)) \o CRLF \o preview_data \o CRLF \o ChunkTerminator

\* respmod hands the body to _send_with_preview
UsesPreview(has_preview, http_res_body) == has_preview /\ http_res_body # ""

(***************************************************************************)
(* Inputs of the model                                                     *)
(***************************************************************************)

MaxBodyLen == 2
MaxPreview == 2

\* encapsulated HTTP messages handed to reqmod / respmod
HttpRequest == "GET / HTTP/1.1\r\n\r\n"
HttpResponseHeaders == "HTTP/1.1 200 OK\r\n\r\n"
Bodies == {SubSeq("abcdefgh", 1, n) : n \in 0..MaxBodyLen}
PreviewSizes == (-1)..MaxPreview

\* what the peer may answer to a write
Responses ==
    { "ICAP/1.0 204 No Content\r\n\r\n",
      "ICAP/1.0 100 Continue\r\n\r\n",
      "ICAP/1.0 200 OK\r\nContent-Length: 5\r\n\r\nhello",
      "ICAP/1.0 200 OK\r\nContent-Length: zz\r\n\r\nbody",
      "ICAP/1.0 200 OK\r\nTransfer-Encoding: chunked\r\n\r\n3\r\nabc\r\n2; x\r\nde\r\n0\r\n\r\n",
      "ICAP/1.0 200 OK\r\nTransfer-Encoding: chunked\r\n\r\n2\r\nab\r\nzz\r\ncd\r\n0\r\n\r\n",
      "ICAP/1.0 404 Not Found\r\n\r\n",
      "ICAP/1.0 500 Server Error\r\n\r\n",
      "ICAP/1.0 503 Busy\r\nContent-Length: 2\r\n\r\nno",
      "ICAP/1.0 599 Last\r\n\r\n",
      "ICAP/1.0 600 Beyond\r\n\r\n",
      "ICAP/1.0\r\n\r\n",
      "ICAP/1.0 ABC OK\r\n\r\n" }

\* the content and the chunk_size of the streams handed to scan_stream
StreamContents == {"", "abc"}
StreamChunkSize == 2

\* the calls a client offers: only the cooperative respmod takes a preview,
\* only the blocking scan_stream takes a chunk_size
Calls(kind) ==
    {[method |-> "OPTIONS", http_body |-> "", has_preview |-> FALSE, preview |-> 0,
      chunk_size |-> 0,
      http_request |-> HttpRequest, http_res_headers |-> HttpResponseHeaders,
      headers |-> <<>>]}
    \cup {[method |-> "REQMOD", http_body |-> b, has_preview |-> FALSE, preview |-> 0,
           chunk_size |-> 0,
      http_request |-> HttpRequest, http_res_headers |-> HttpResponseHeaders,
      headers |-> <<>>] : b \in {"", "ab"}}
    \cup {[method |-> "RESPMOD", http_body |-> b, has_preview |-> FALSE, preview |-> 0,
           chunk_size |-> 0,
      http_request |-> HttpRequest, http_res_headers |-> HttpResponseHeaders,
      headers |-> <<>>] : b \in Bodies}
    \cup IF kind = "async"
         THEN {[method |-> "RESPMOD", http_body |-> b, has_preview |-> TRUE, preview |-> n,
                chunk_size |-> 0,
      http_request |-> HttpRequest, http_res_headers |-> HttpResponseHeaders,
      headers |-> <<>>] : b \in Bodies, n \in PreviewSizes}
         ELSE {[method |-> "SCAN_STREAM", http_body |-> b, has_preview |-> FALSE,
                preview |-> 0, chunk_size |-> StreamChunkSize,
      http_request |-> HttpRequest, http_res_headers |-> HttpResponseHeaders,
      headers |-> <<>>] : b \in StreamContents}

NoCall == [method |-> "", http_body |-> "", has_preview |-> FALSE, preview |-> 0,
           chunk_size |-> 0,
      http_request |-> HttpRequest, http_res_headers |-> HttpResponseHeaders,
      headers |-> <<>>]

\* a session: several operations in a row, against short answers
MaxCalls == 2
MaxConns == 2

SessionResponses == {"ICAP/1.0 204 No Content\r\n\r\n"}

SessionCalls(kind) ==
    {[method |-> "OPTIONS", http_body |-> "", has_preview |-> FALSE, preview |-> 0,
      chunk_size |-> 0,
      http_request |-> HttpRequest, http_res_headers |-> HttpResponseHeaders,
      headers |-> <<>>]}
    \cup IF kind = "async"
         THEN {[method |-> "RESPMOD", http_body |-> "ab", has_preview |-> TRUE,
                preview |-> 1, chunk_size |-> 0,
      http_request |-> HttpRequest, http_res_headers |-> HttpResponseHeaders,
      headers |-> <<>>]}
         ELSE {[method |-> "SCAN_STREAM", http_body |-> "abc", has_preview |-> FALSE,
                preview |-> 0, chunk_size |-> StreamChunkSize,
      http_request |-> HttpRequest, http_res_headers |-> HttpResponseHeaders,
      headers |-> <<>>]}

\* request building: the encapsulated messages and the extra ICAP headers a
\* caller may hand to reqmod / respmod (a dict, in insertion order)
ExtraHeaders ==
    { <<>>,
      << <<"X-Client-IP", "10.0.0.1">> >>,
      << <<"Allow", "206">> >>,
      << <<"X-Id", "7">>, <<"Host", "proxy">> >>,
      << <<"Encapsulated", "null-body=0">> >> }

BuildCalls(kind) ==
    {[method |-> "REQMOD", http_body |-> b, has_preview |-> FALSE, preview |-> 0,
      chunk_size |-> 0, http_request |-> HttpRequest,
      http_res_headers |-> HttpResponseHeaders, headers |-> h]
        : b \in {"", "ab"}, h \in ExtraHeaders}
    \cup {[method |-> "RESPMOD", http_body |-> b, has_preview |-> FALSE, preview |-> 0,
           chunk_size |-> 0, http_request |-> q, http_res_headers |-> r, headers |-> h]
             : b \in {"", "ab"}, q \in {"", HttpRequest},
               r \in {HttpResponseHeaders, "HTTP/1.1 200 OK\r\n"}, h \in ExtraHeaders}
    \cup IF kind = "async"
         THEN {[method |-> "RESPMOD", http_body |-> "ab", has_preview |-> TRUE,
                preview |-> 1, chunk_size |-> 0, http_request |-> q,
                http_res_headers |-> HttpResponseHeaders, headers |-> h]
                  : q \in {"", HttpRequest}, h \in ExtraHeaders}
         ELSE {[method |-> "SCAN_STREAM", http_body |-> "abc", has_preview |-> FALSE,
                preview |-> 0, chunk_size |-> StreamChunkSize,
                http_request |-> HttpRequest, http_res_headers |-> HttpResponseHeaders,
                headers |-> <<>>]}

\* what a run of each scope draws its calls and the peer's answers from, and
\* how many operations and connections it follows
Offered(s, kind) ==
    IF s = "session" THEN SessionCalls(kind)
    ELSE IF s = "build" THEN BuildCalls(kind)
    ELSE IF s \in {"managed", "stale", "returning"} THEN {c \in SessionCalls(kind) : c.method = "OPTIONS"}
    ELSE Calls(kind)
Served(s) == IF s \in {"session", "build", "managed"} THEN SessionResponses ELSE Responses
MaxCallsOf(s) == IF s \in {"session", "stale"} THEN MaxCalls ELSE 1
MaxConnsOf(s) == IF s \in {"session", "stale"} THEN MaxConns ELSE 1

(***************************************************************************)
(* State                                                                   *)
(***************************************************************************)

VARIABLES
    flavor,         \* "sync": IcapClient, "async": AsyncIcapClient
    sock,           \* IcapClient._socket (0 = None)
    connected,      \* IcapClient._connected
    reader,         \* AsyncIcapClient._reader (0 = None)
    writer,         \* AsyncIcapClient._writer (0 = None)
    pending,        \* bytes the peer sends if it stays up, not yet read
    peerClosed,     \* the peer closed the connection: reads return b""
    pc,             \* where the running call stands
    routine,        \* the method running the exchange
    args,           \* the arguments of the running call
    request,        \* the bytes of the first write
    source,         \* what is left to read of the stream handed to scan_stream
    response_data,  \* the receive buffer
    length,         \* content_length / is_chunked found by the header scan
    bytes_read,     \* body bytes counted by the Content-Length loop
    chunk,          \* buffer, body and position of _read_chunked_body
    last_read,      \* how the last read of the running receive ended ("" = none yet)
    response,       \* the last response parsed
    parsed,         \* the status codes of the responses parsed, in order
    outcome,        \* how the call ended: "Response" or the exception raised
    cause,          \* the exception the raised one was raised from ("" = none)
    trace,          \* write calls and response reads of the call, in order
    scope,          \* the kind of run explored: which calls, answers and how many
    ncalls,         \* the operations that returned to the caller so far
    opened,         \* the number of connections the client established so far
    live,           \* the connections established and not closed (numbered 1..opened)
    script,         \* the bytes a run feeds to the receive routines or to the chunk
                    \* decoders, and what they make of them
    tasks,          \* callers running operations at the same time: where each stands
    links,          \* per client instance: the answers on its connection, not yet read
    with_block,     \* the with block of the client: "out", "in" or "left"
    mock            \* MockIcapClient: its response queues, defaults and last results

vars == <<flavor, sock, connected, reader, writer, pending, peerClosed, pc, routine, args,
          request, source, response_data, length, bytes_read, chunk, last_read, response,
          parsed,
          outcome, cause, trace, scope, ncalls, opened, live, script, tasks, links, with_block,
          mock>>

aside == <<with_block, mock>>
apart == <<tasks, links, aside>>
session == <<flavor, scope, ncalls, script, apart>>
conn == <<sock, connected, reader, writer, opened, live>>
peer == <<pending, peerClosed>>
call == <<routine, args, request>>
rx == <<response_data, length, bytes_read, chunk, last_read>>
raised == <<outcome, cause>>
result == <<response, parsed, raised>>

NoChunk == [at |-> "line", buffer |-> "", body |-> "", chunk_size |-> 0, how |-> "reading"]

NoScript == Scripted(<<>>)

\* callers and the client instances they use: a and b share one, c has its own
TaskIds == {"a", "b", "c"}
Clients == {1, 2}
ClientOf(t) == IF t = "c" THEN 2 ELSE 1

NoTask == [pc |-> "idle", method |-> "", got |-> <<>>]

\* MockIcapClient.__init__: empty queues, none active, the default responses,
\* no callback, no matcher, no recorded call;
\* queued / served / last record what was queued last, the calls made since
\* the method was configured and how the last of them ended
MockMethods == {"options", "respmod", "reqmod"}

NoLast == [how |-> "", item |-> ""]

DefaultItem(m) == IF m = "options" THEN "options" ELSE "clean"

NewMock ==
    [queue |-> [m \in MockMethods |-> <<>>],
     queue_active |-> [m \in MockMethods |-> FALSE],
     default |-> [m \in MockMethods |-> DefaultItem(m)],
     callback |-> [m \in MockMethods |-> ""],
     matchers |-> <<>>,
     calls |-> <<>>,
     queued |-> [m \in MockMethods |-> <<>>],
     served |-> [m \in MockMethods |-> 0],
     last |-> [m \in MockMethods |-> NoLast]]

\* a new client of either class, for a run of the given scope
Start(s) ==
    /\ scope = s /\ ncalls = 0 /\ opened = 0 /\ live = {} /\ script = NoScript
    /\ tasks = [t \in TaskIds |-> NoTask] /\ links = [c \in Clients |-> <<>>]
    /\ with_block = "out" /\ mock = NewMock
    /\ flavor \in {"sync", "async"}
    /\ sock = 0 /\ connected = FALSE /\ reader = 0 /\ writer = 0
    /\ pending = "" /\ peerClosed = FALSE
    /\ pc = "idle" /\ routine = "" /\ args = NoCall /\ request = "" /\ source = ""
    /\ response_data = "" /\ length = NoLength /\ bytes_read = 0 /\ chunk = NoChunk
    /\ last_read = ""
    /\ response = NoResponse /\ parsed = <<>> /\ outcome = "" /\ cause = ""
    /\ trace = <<>>

\* one operation on the first connection, against every answer of Responses
Init == Start("exchange")

(***************************************************************************)
(* Connection and outcomes                                                 *)
(***************************************************************************)

IoResults == {"ok", "timeout", "oserror"}

\* is_connected as the operations test it before connecting
IsConnected == IF flavor = "sync" THEN connected ELSE writer # 0

\* raise ... from e
RaiseFrom(kind, e) == pc' = "done" /\ outcome' = kind /\ cause' = e

Raise(kind) == RaiseFrom(kind, "")

\* a handler that leaves the client as it is
InvalidateNothing == UNCHANGED conn

\* a handler that forgets half of what the client holds: the socket and not
\* the flag, the writer and not the reader
InvalidateHalf ==
    IF flavor = "sync"
    THEN sock' = 0 /\ UNCHANGED <<connected, reader, writer, opened, live>>
    ELSE writer' = 0 /\ UNCHANGED <<reader, sock, connected, opened, live>>

\* except OSError in the send/receive routines: the client forgets the
\* connection without closing it (the transport of a stream that failed may
\* have closed itself, a socket stays open)
Invalidate ==
    IF flavor = "sync"
    THEN connected' = FALSE /\ UNCHANGED <<sock, reader, writer, opened, live>>
    ELSE /\ writer' = 0 /\ reader' = 0
         /\ live' \in {live, live \ {writer}}
         /\ UNCHANGED <<sock, connected, opened>>

\* a failed write or read ends the call: IcapTimeoutError, or IcapConnectionError
\* with the connection forgotten
IoFailure(io) ==
    IF io = "timeout"
    THEN RaiseFrom("IcapTimeoutError", io) /\ UNCHANGED conn
    ELSE RaiseFrom("IcapConnectionError", io) /\ Invalidate

\* a test that never finds the client connected, and one that always does
AlreadyConnectedNever == FALSE
AlreadyConnectedAlways == TRUE

\* the test connect() and the operations make before opening a connection
AlreadyConnected == IF flavor = "sync" THEN connected ELSE writer # 0

\* the run allows one more connection
CanOpen == opened < MaxConnsOf(scope)

\* connect() when not connected, with the result of opening the connection: a
\* new connection is numbered opened + 1 and has its own byte stream; whatever
\* the client held before is overwritten, not closed
ConnectEffect(io) ==
    /\ opened' = IF io = "ok" THEN opened + 1 ELSE opened
    /\ live' = IF io = "ok" THEN live \cup {opened + 1} ELSE live
    /\ pending' = IF io = "ok" THEN "" ELSE pending
    /\ peerClosed' = IF io = "ok" THEN FALSE ELSE peerClosed
    /\ IF flavor = "sync"
       THEN /\ sock' = IF io = "ok" THEN opened + 1 ELSE 0
            /\ connected' = (io = "ok")
            /\ UNCHANGED <<reader, writer>>
       ELSE /\ reader' = IF io = "ok" THEN opened + 1 ELSE reader
            /\ writer' = IF io = "ok" THEN opened + 1 ELSE writer
            /\ UNCHANGED <<sock, connected>>

\* a connect that reports every failure as a lost connection
ConnectErrorAlwaysConnection(io) == "IcapConnectionError"

ConnectError(io) == IF io = "timeout" THEN "IcapTimeoutError" ELSE "IcapConnectionError"

\* connect()
Connect ==
    /\ pc = "idle"
    /\ AlreadyConnected \/ CanOpen
    /\ \E io \in IoResults :
         IF AlreadyConnected THEN UNCHANGED <<conn, peer>> ELSE ConnectEffect(io)
    /\ UNCHANGED <<session, pc, call, source, rx, result, trace>>

\* the reference is dropped and the connection left open
DropHeld(held) == live

\* socket.close() / writer.close() on the connection the client holds
CloseHeld(held) == live \ {held}

\* disconnect()
Disconnect ==
    /\ pc = "idle"
    /\ IF flavor = "sync"
       THEN /\ sock' = 0 /\ connected' = FALSE
            /\ live' = CloseHeld(sock)
            /\ UNCHANGED <<reader, writer, opened>>
       ELSE /\ writer' = 0
            /\ reader' = IF writer # 0 THEN 0 ELSE reader
            /\ live' = CloseHeld(writer)
            /\ UNCHANGED <<sock, connected, opened>>
    /\ UNCHANGED <<session, peer, pc, call, source, rx, result, trace>>

(***************************************************************************)
(* options / reqmod / respmod / scan_stream up to the first write          *)
(***************************************************************************)

\* _scan_stream_chunked: the encapsulated headers and the head it writes first
StreamHttpRequest == "GET /scan HTTP/1.1\r\nHost: file-scan\r\n\r\n"
StreamHttpResponseHeaders ==
    "HTTP/1.1 200 OK\r\nContent-Type: application/octet-stream\r\n"
        \o "Transfer-Encoding: chunked\r\n\r\n"

StreamHead ==
    BuildRequest(RequestLine("RESPMOD"),
                 << <<"Host", HostPort>>, <<"User-Agent", USER_AGENT>>, <<"Allow", "204">>,
                    <<"Encapsulated",
                      "req-hdr=0, res-hdr=" \o IntToStr(Len(StreamHttpRequest))
                          \o ", res-body="
                          \o IntToStr(Len(StreamHttpRequest) + Len(StreamHttpResponseHeaders))>>
                 >>)
        \o StreamHttpRequest \o StreamHttpResponseHeaders

RoutineOf(a) ==
    IF a.method = "SCAN_STREAM" THEN "scan_stream_chunked"
    ELSE IF a.method = "RESPMOD"
            /\ UsesPreview(a.has_preview, ResponseBody(a.http_res_headers \o a.http_body))
    THEN "send_with_preview"
    ELSE "send_and_receive"

RequestOf(a) ==
    LET http_response == a.http_res_headers \o a.http_body
    IN  IF a.method = "OPTIONS" THEN OptionsRequest
        ELSE IF a.method = "REQMOD" THEN ReqmodRequest(a.http_request, a.http_body, a.headers)
        ELSE IF a.method = "SCAN_STREAM" THEN StreamHead
        ELSE RespmodHead(a.http_request, http_response, a.headers, a.has_preview, a.preview)
                 \o IF RoutineOf(a) = "send_with_preview"
                    THEN PreviewChunk(ResponseBody(http_response), a.preview)
                    ELSE RespmodBody(ResponseBody(http_response))

\* the call: connect if not connected, build the request, enter the routine
Call ==
    /\ pc = "idle"
    /\ AlreadyConnected \/ CanOpen
    /\ \E a \in Offered(scope, flavor), io \in IoResults :
         /\ args' = a
         /\ IF AlreadyConnected
            THEN io = "ok" /\ UNCHANGED <<conn, peer>>
            ELSE ConnectEffect(io)
         /\ IF ~AlreadyConnected /\ io # "ok"
            THEN /\ RaiseFrom(ConnectError(io), io)
                 /\ UNCHANGED <<routine, request, source>>
            ELSE /\ routine' = RoutineOf(a)
                 /\ request' = RequestOf(a)
                 /\ source' = IF a.method = "SCAN_STREAM" THEN a.http_body ELSE ""
                 /\ IF (flavor = "sync" /\ sock' = 0)
                       \/ (flavor = "async" /\ (writer' = 0 \/ reader' = 0))
                    THEN Raise("IcapConnectionError")
                    ELSE pc' = "send" /\ outcome' = "" /\ cause' = ""
    /\ UNCHANGED <<session, rx, response, parsed, trace>>

(***************************************************************************)
(* The exchange: write, then read one response                             *)
(***************************************************************************)

WriteEvent(data) == [event |-> "write", data |-> data]
ReceiveEvent == [event |-> "receive", data |-> ""]

\* a server that names in the status line the request it answers: the first,
\* the second, ... request of the client
AnswerToCall(n) == "ICAP/1.0 204 Reply" \o NatToStr(n, 10) \o "\r\n\r\n"

\* what the peer may answer to the request just written
Answers == IF scope = "stale" THEN {AnswerToCall(ncalls)} ELSE Served(scope)

\* the read of a response starts: fresh locals, and the peer's answer to what
\* was written is on its way
StartReceive ==
    /\ \E r \in Answers : pending' = pending \o r
    /\ pc' = "headers"
    /\ response_data' = "" /\ length' = NoLength /\ bytes_read' = 0 /\ chunk' = NoChunk
    /\ last_read' = ""

\* the first write (sendall / write + drain) of a request, then the read
Send ==
    /\ pc = "send"
    /\ routine # "scan_stream_chunked"
    /\ \E io \in IoResults :
         IF io = "ok"
         THEN /\ trace' = trace \o <<WriteEvent(request), ReceiveEvent>>
              /\ StartReceive
              /\ UNCHANGED <<conn, raised>>
         ELSE /\ trace' = Append(trace, WriteEvent(request))
              /\ IoFailure(io)
              /\ UNCHANGED <<pending, rx>>
    /\ UNCHANGED <<session, peerClosed, call, source, response, parsed>>

\* _scan_stream_chunked writes the head
StreamHeadSend ==
    /\ pc = "send"
    /\ routine = "scan_stream_chunked"
    /\ trace' = Append(trace, WriteEvent(request))
    /\ \E io \in IoResults :
         IF io = "ok" THEN pc' = "stream" /\ UNCHANGED <<conn, raised>> ELSE IoFailure(io)
    /\ UNCHANGED <<session, peer, call, source, rx, response, parsed>>

\* the data of a piece written before its size line
PieceWritesDataFirst(piece) ==
    <<WriteEvent(piece), WriteEvent(HexStr(Len(piece)) \o CRLF), WriteEvent(CRLF)>>

\* the three sendall calls of one piece of the stream
PieceWrites(piece) ==
    <<WriteEvent(HexStr(Len(piece)) \o CRLF), WriteEvent(piece), WriteEvent(CRLF)>>

\* _iter_chunks yields a piece and the loop body writes it; an OSError of
\* stream.read is caught like one of the socket
StreamChunk ==
    /\ pc = "stream"
    /\ \/ /\ RaiseFrom("IcapConnectionError", "stream_read") /\ Invalidate
          /\ UNCHANGED <<source, trace>>
       \/ /\ SliceTo(source, args.chunk_size) # ""
          /\ source' = SliceFrom(source, args.chunk_size)
          /\ \E io \in IoResults, n \in 1..3 :
               /\ io = "ok" => n = 3
               /\ trace' = trace \o SubSeq(PieceWrites(SliceTo(source, args.chunk_size)), 1, n)
               /\ IF io = "ok" THEN UNCHANGED <<pc, conn, raised>> ELSE IoFailure(io)
    /\ UNCHANGED <<session, peer, call, rx, response, parsed>>

\* the stream is exhausted: the terminator is written and the response read
StreamEnd ==
    /\ pc = "stream"
    /\ SliceTo(source, args.chunk_size) = ""
    /\ \E io \in IoResults :
         IF io = "ok"
         THEN /\ trace' = trace \o <<WriteEvent(ChunkTerminator), ReceiveEvent>>
              /\ StartReceive
              /\ UNCHANGED <<conn, raised>>
         ELSE /\ trace' = Append(trace, WriteEvent(ChunkTerminator))
              /\ IoFailure(io)
              /\ UNCHANGED <<pending, rx>>
    /\ UNCHANGED <<session, peerClosed, call, source, response, parsed>>

\* what one read of at most n bytes can give
ReadResults(n) ==
    {[kind |-> "data", size |-> k] :
        k \in 1..(IF peerClosed THEN 0 ELSE IF n < Len(pending) THEN n ELSE Len(pending))}
    \cup {[kind |-> "eof", size |-> 0]}
    \cup IF peerClosed THEN {}
         ELSE {[kind |-> "timeout", size |-> 0], [kind |-> "oserror", size |-> 0]}

ReadFailed(r) == r.kind \in {"timeout", "oserror"}

\* every failed read handled as a lost connection
ReadFailureAsLostConnection(io) == IoFailure("oserror")

\* a failed read ends the call: AsyncIcapClient turns the timeout of a read
\* into IcapTimeoutError where it reads (raise ... from None), every other
\* failure reaches the handlers of the routine
ReadFailure(io) ==
    IF flavor = "async" /\ io = "timeout"
    THEN Raise("IcapTimeoutError") /\ UNCHANGED conn
    ELSE IoFailure(io)

\* the effect of a read on the connection, and of a failed read on the call
ReadEffect(r) ==
    /\ pending' = IF r.kind = "data" THEN From(pending, r.size + 1)
                  ELSE IF r.kind = "eof" THEN "" ELSE pending
    /\ peerClosed' = (peerClosed \/ r.kind = "eof")
    /\ last_read' = r.kind
    /\ IF ReadFailed(r) THEN ReadFailure(r.kind) ELSE UNCHANGED <<conn, raised>>

\* one read of the header loop
\* a header loop that goes on after an empty read
HeaderLoopEndsAtMarker(r, data) == Contains(data, header_end_marker)

\* the header loop ends: if not chunk: break, or the marker is in the data
HeaderLoopEnds(r, data) == r.kind = "eof" \/ Contains(data, header_end_marker)

RecvHeaders ==
    /\ pc = "headers"
    /\ \E r \in ReadResults(BUFFER_SIZE) :
         /\ ReadEffect(r)
         /\ response_data' = IF r.kind = "data"
                             THEN response_data \o Upto(pending, r.size)
                             ELSE response_data
         /\ ~ReadFailed(r) =>
              pc' = IF HeaderLoopEnds(r, response_data') THEN "scan" ELSE "headers"
    /\ UNCHANGED <<session, call, source, length, bytes_read, chunk, response, parsed, trace>>

\* after the header loop: how the body is to be read
Scan ==
    /\ pc = "scan"
    /\ IF ~Contains(response_data, header_end_marker)
       THEN pc' = "parse" /\ UNCHANGED <<rx, raised>>
       ELSE LET found == ScanHeaders(routine, response_data)
                body_start == BodyStart(response_data)
                decoded == DecodeChunks("line", body_start, "", 0)
            IN  /\ length' = found
                /\ IF found.value_error
                   THEN Raise("ValueError") /\ UNCHANGED <<response_data, bytes_read, chunk>>
                   ELSE IF found.has_length
                   THEN /\ bytes_read' = Len(body_start)
                        /\ pc' = IF Len(body_start) < found.content_length
                                 THEN "body" ELSE "parse"
                        /\ UNCHANGED <<response_data, chunk, raised>>
                   ELSE IF found.is_chunked
                   THEN /\ chunk' = decoded
                        /\ response_data' =
                             HeaderPart(response_data)
                                 \o IF decoded.at = "return" THEN decoded.body ELSE ""
                        /\ pc' = IF decoded.at = "return" THEN "parse" ELSE "chunks"
                        /\ UNCHANGED <<bytes_read, raised>>
                   ELSE pc' = "parse" /\ UNCHANGED <<response_data, bytes_read, chunk, raised>>
    /\ UNCHANGED <<session, conn, peer, call, source, last_read, response, parsed, trace>>

\* one read of the Content-Length loop
RecvBody ==
    /\ pc = "body"
    /\ LET want == length.content_length - bytes_read
       IN  \E r \in ReadResults(IF BUFFER_SIZE < want THEN BUFFER_SIZE ELSE want) :
             /\ ReadEffect(r)
             /\ response_data' = IF r.kind = "data"
                                 THEN response_data \o Upto(pending, r.size)
                                 ELSE response_data
             /\ bytes_read' = bytes_read + r.size
             /\ ~ReadFailed(r) =>
                  pc' = IF r.kind = "eof" \/ bytes_read' >= length.content_length
                        THEN "parse" ELSE "body"
    /\ UNCHANGED <<session, call, source, length, chunk, response, parsed, trace>>

\* one read of _read_chunked_body at the given position, then decoding as far
\* as the buffer allows; an empty read returns the body decoded so far
RecvChunked(at) ==
    /\ pc = "chunks"
    /\ chunk.at = at
    /\ \E r \in ReadResults(BUFFER_SIZE) :
         LET decoded == IF r.kind = "data"
                        THEN DecodeChunks(chunk.at, chunk.buffer \o Upto(pending, r.size),
                                          chunk.body, chunk.chunk_size)
                        ELSE IF r.kind = "eof"
                        THEN [chunk EXCEPT !.at = "return", !.how = "closed"]
                        ELSE chunk
         IN  /\ ReadEffect(r)
             /\ chunk' = decoded
             /\ response_data' = response_data
                                   \o IF decoded.at = "return" THEN decoded.body ELSE ""
             /\ ~ReadFailed(r) => pc' = IF decoded.at = "return" THEN "parse" ELSE "chunks"
    /\ UNCHANGED <<session, call, source, length, bytes_read, response, parsed, trace>>

\* a read while waiting for a chunk-size line
RecvChunkSize == RecvChunked("line")

\* a read while waiting for the bytes of a chunk
RecvChunkData == RecvChunked("data")

\* the parsed response is checked for a server error and returned
Validate(status_code) ==
    Raise(IF IsServerError(status_code) THEN "IcapServerError" ELSE "Response")

\* the end of _send_and_receive and of _receive_response: parse (ValueError
\* becomes IcapProtocolError), check for a server error, return
Finish ==
    /\ pc = "parse"
    /\ routine # "send_with_preview"
    /\ IF ~ParseOk(response_data)
       THEN RaiseFrom("IcapProtocolError", "ValueError") /\ UNCHANGED <<response, parsed>>
       ELSE /\ response' = Parse(response_data)
            /\ parsed' = Append(parsed, Parse(response_data).status_code)
            /\ Validate(Parse(response_data).status_code)
    /\ UNCHANGED <<session, conn, peer, call, source, rx, trace>>

(***************************************************************************)
(* AsyncIcapClient._send_with_preview after its first read                 *)
(***************************************************************************)

Events(kind) == SelectSeq(trace, LAMBDA e : e.event = kind)

\* the data of the write calls made so far, in order
Writes == [i \in 1..Len(Events("write")) |-> Events("write")[i].data]

\* the number of responses whose read was started
NumReceives == Len(Events("receive"))

\* a status test that also continues after 200
IsContinueUpTo200(status_code) == status_code <= 200

\* the server asks for the rest of the body
IsContinue(status_code) == status_code = 100

\* a response was received: parse it (no ValueError handler here), then either
\* go on after a first response of 100 Continue, or check for a server error
\* and return
PreviewParsed ==
    /\ pc = "parse"
    /\ routine = "send_with_preview"
    /\ IF ~ParseOk(response_data)
       THEN Raise("ValueError") /\ UNCHANGED <<response, parsed>>
       ELSE /\ response' = Parse(response_data)
            /\ parsed' = Append(parsed, Parse(response_data).status_code)
            /\ IF NumReceives = 1 /\ IsContinue(Parse(response_data).status_code)
               THEN pc' = "continue" /\ UNCHANGED raised
               ELSE Validate(Parse(response_data).status_code)
    /\ UNCHANGED <<session, conn, peer, call, source, rx, trace>>

\* the write calls after 100 Continue if the whole body were sent again
ContinueWritesWholeBody(body, preview_size) ==
    (IF body # "" THEN <<WriteEvent(EncodeChunk(body))>> ELSE <<>>)
        \o <<WriteEvent(ChunkTerminator)>>

\* the write calls after 100 Continue: the remainder as one chunk if there is
\* one, then the terminator
ContinueWrites(body, preview_size) ==
    (IF RemainderData(body, preview_size) # ""
     THEN <<WriteEvent(EncodeChunk(RemainderData(body, preview_size)))>>
     ELSE <<>>) \o <<WriteEvent(ChunkTerminator)>>

\* after 100 Continue: write the rest, drain, read the final response
PreviewContinue ==
    /\ pc = "continue"
    /\ \E io \in IoResults :
         IF io = "ok"
         THEN /\ trace' = trace \o ContinueWrites(args.http_body, args.preview)
                                \o <<ReceiveEvent>>
              /\ StartReceive
              /\ UNCHANGED <<conn, raised>>
         ELSE /\ trace' = trace \o ContinueWrites(args.http_body, args.preview)
              /\ IoFailure(io)
              /\ UNCHANGED <<pending, rx>>
    /\ UNCHANGED <<session, peerClosed, call, source, response, parsed>>

Next ==
    \/ Connect
    \/ Disconnect
    \/ Call
    \/ Send
    \/ StreamHeadSend
    \/ StreamChunk
    \/ StreamEnd
    \/ RecvHeaders
    \/ Scan
    \/ RecvBody
    \/ RecvChunkSize
    \/ RecvChunkData
    \/ Finish
    \/ PreviewParsed
    \/ PreviewContinue

Spec == Init /\ [][Next]_vars

\* one operation whose every write and every read returns: recv and sendall
\* block for at most the socket timeout, the awaits of the cooperative client
\* are bounded by wait_for
InitReturning == Start("returning")

NextReturning ==
    \/ Call
    \/ Send
    \/ RecvHeaders
    \/ Scan
    \/ RecvBody
    \/ RecvChunkSize
    \/ RecvChunkData
    \/ Finish

\* the step that Scan takes, by where it starts and where it can end
ScanCompletes == pc = "scan" /\ pc' \in {"body", "chunks", "parse", "done"}

\* every read returns, and the scan of the received headers, which waits for
\* nothing, completes
SpecReturning ==
    /\ InitReturning /\ [][NextReturning]_vars
    /\ WF_vars(RecvHeaders) /\ WF_pc(ScanCompletes) /\ WF_vars(RecvBody)
    /\ WF_vars(RecvChunkSize) /\ WF_vars(RecvChunkData)

(***************************************************************************)
(* Sessions: operations in a row on one client, and cancellation           *)
(***************************************************************************)

\* the operation returned or raised: the caller has the client back
Return ==
    /\ pc = "done"
    /\ ncalls + 1 < MaxCallsOf(scope)
    /\ ncalls' = ncalls + 1
    /\ pc' = "idle" /\ routine' = "" /\ args' = NoCall /\ request' = "" /\ source' = ""
    /\ response_data' = "" /\ length' = NoLength /\ bytes_read' = 0 /\ chunk' = NoChunk
    /\ last_read' = ""
    /\ response' = NoResponse /\ parsed' = <<>> /\ outcome' = "" /\ cause' = ""
    /\ trace' = <<>>
    /\ UNCHANGED <<flavor, scope, script, apart, conn, peer>>

\* the points where a coroutine of AsyncIcapClient is suspended: the drain
\* after a write and every read
Suspended == flavor = "async" /\ pc \in {"send", "headers", "body", "chunks", "continue"}

\* the task running the operation is cancelled: CancelledError is raised at the
\* await and no handler of the client catches it
Cancel ==
    /\ Suspended
    /\ Raise("CancelledError")
    /\ UNCHANGED <<session, conn, peer, call, source, rx, response, parsed, trace>>

InitStale == Start("stale")

NextStale == Call \/ Send \/ RecvHeaders \/ Scan \/ Finish \/ Return

SpecStale == InitStale /\ [][NextStale]_vars

InitSession == Start("session")

NextSession ==
    \/ Connect
    \/ Disconnect
    \/ Call
    \/ Send
    \/ StreamHeadSend
    \/ StreamChunk
    \/ StreamEnd
    \/ RecvHeaders
    \/ Scan
    \/ Finish
    \/ PreviewParsed
    \/ Return
    \/ Cancel

SpecSession == InitSession /\ [][NextSession]_vars

(***************************************************************************)
(* Both receive routines on the same read results                          *)
(***************************************************************************)

\* the longest sequence of read results
MaxReads == 4

\* what one read of the connection may give
ScriptedReads ==
    { DataRead("ICAP/1.0 200 OK\r\n"),
      DataRead("ICAP/1.0 503 Busy\r\n\r\n"),
      DataRead("ICAP/1.0 204 No Content\r\n\r\nxy"),
      DataRead("Content-Length: 3\r\n\r\nab"),
      DataRead("Content-Length: 1\r\n\r\nabc"),
      DataRead("Content-Length: zz\r\n\r\n"),
      DataRead("Transfer-Encoding: chunked\r\n\r\n2\r\nab\r\n"),
      DataRead("cd"),
      DataRead("0\r\n\r\n"),
      EmptyRead,
      TimeoutRead }

\* one more read result becomes known; both routines are run on the sequence
Deliver ==
    /\ Len(script.reads) < MaxReads
    /\ \E r \in ScriptedReads : script' = Scripted(Append(script.reads, r))
    /\ UNCHANGED <<flavor, scope, ncalls, apart, conn, peer, pc, call, source, rx, result,
                   trace>>

\* both routines are run on every sequence, whichever class the client is of
\* --- IcapClient._receive_response, called by _scan_stream_chunked -----------

\* the header loop and the Content-Length loop are those of
\* _send_and_receive; the header scan stops at the first Content-Length and
\* there is no branch for Transfer-Encoding
StreamReceive(reads) ==
    LET head == SyncHeaderReads(reads, 0, "")
        found == ScanLinesFirst(HeaderLinesOf(head.data), NoLength)
        body_start == BodyStart(head.data)
        body == SyncBodyReads(head.rest, head.n, HeaderPart(head.data) \o body_start,
                              Len(body_start), found.content_length)
    IN  IF head.end # "done" THEN Unfinished(head)
        ELSE IF ~Contains(head.data, header_end_marker) THEN SyncFinish(head.data, head.n)
        ELSE IF found.value_error THEN Received("ValueError", NoResponse, head.n)
        ELSE IF found.has_length
        THEN IF body.end # "done" THEN Unfinished(body) ELSE SyncFinish(body.data, body.n)
        ELSE SyncFinish(head.data, head.n)

\* the read results the two receive routines of the blocking client are
\* compared on
PathReads ==
    { DataRead("ICAP/1.0 200 OK\r\n"),
      DataRead("Content-Length: 1\r\n"),
      DataRead("Content-Length: 3\r\n\r\nab"),
      DataRead("Transfer-Encoding: chunked\r\n\r\n2\r\nab\r\n"),
      DataRead("0\r\n\r\n"),
      DataRead("cd"),
      EmptyRead,
      TimeoutRead }

\* one more read result; both routines are run on the sequence
DeliverBoth ==
    /\ scope = "paths"
    /\ Len(script.reads) < MaxReads
    /\ \E r \in PathReads :
         script' = [reads |-> Append(script.reads, r),
                    sync |-> SyncReceive(Append(script.reads, r)),
                    stream |-> StreamReceive(Append(script.reads, r))]
    /\ UNCHANGED <<flavor, scope, ncalls, apart, conn, peer, pc, call, source, rx, result,
                   trace>>

InitPaths == Start("paths") /\ flavor = "sync"

NextPaths == DeliverBoth

SpecPaths == InitPaths /\ [][NextPaths]_vars

InitReceive == Start("receive") /\ flavor = "sync"

NextReceive == Deliver

SpecReceive == InitReceive /\ [][NextReceive]_vars

(***************************************************************************)
(* The chunk codec: _encode_chunked and _read_chunked_body                 *)
(***************************************************************************)

\* the longest body handed to _encode_chunked
MaxCodecLen == 17

CodecText == "0\r\n\r\n5;x\r\nHello World\r\n0123456789"

CodecBodies == {Upto(CodecText, n) : n \in 0..MaxCodecLen}

\* chunked streams: those _encode_chunked makes, and well-formed ones as a
\* server may write them, each with the payload it carries
CodecStreams ==
    {[bytes |-> EncodeChunked(b) \o ChunkTerminator, payload |-> b, made |-> "encoded"]
        : b \in CodecBodies}
    \cup
    { [bytes |-> "5\r\nHello\r\n5\r\nWorld\r\n0\r\n\r\n", payload |-> "HelloWorld", made |-> "wire"],
      [bytes |-> "3; ext=1\r\nabc\r\n1;a;b\r\nd\r\n0;last\r\n\r\n", payload |-> "abcd", made |-> "wire"],
      [bytes |-> "a\r\n0123456789\r\n0\r\n\r\n", payload |-> "0123456789", made |-> "wire"],
      [bytes |-> "2\r\n\r\n\r\n1\r\n0\r\n00\r\n\r\n", payload |-> "\r\n0", made |-> "wire"],
      [bytes |-> "0\r\n\r\n", payload |-> "", made |-> "wire"] }

\* both decoders resumed on the bytes buffered so far plus the new ones
Resumed(decoded, data) ==
    IF decoded.at = "return" THEN decoded
    ELSE DecodeChunks(decoded.at, decoded.buffer \o data, decoded.body, decoded.chunk_size)

AsyncResumed(decoded, data) ==
    IF decoded.at = "return" THEN decoded
    ELSE AsyncDecodeChunks(decoded.at, decoded.buffer \o data, decoded.body,
                           decoded.chunk_size)

Decoding == "fed" \in DOMAIN script

\* a stream arrives; its first bytes (possibly none) are the initial_data the
\* decoder is called with
Encode ==
    /\ ~Decoding
    /\ \E c \in CodecStreams : \E k \in 0..Len(c.bytes) :
         script' = [stream |-> c.bytes, payload |-> c.payload, made |-> c.made,
                    fed |-> k, reads |-> 0,
                    sync |-> DecodeChunks("line", Upto(c.bytes, k), "", 0),
                    async |-> AsyncDecodeChunks("line", Upto(c.bytes, k), "", 0)]
    /\ UNCHANGED <<flavor, scope, ncalls, apart, conn, peer, pc, call, source, rx, result,
                   trace>>

\* one read of a decoder that is still reading gives the next bytes of the stream
FeedChunked ==
    /\ Decoding
    /\ script.sync.at # "return" \/ script.async.at # "return"
    /\ \E k \in 1..(Len(script.stream) - script.fed) :
         LET data == SubSeq(script.stream, script.fed + 1, script.fed + k)
         IN  script' = [script EXCEPT !.fed = @ + k, !.reads = @ + 1,
                                      !.sync = Resumed(@, data),
                                      !.async = AsyncResumed(@, data)]
    /\ UNCHANGED <<flavor, scope, ncalls, apart, conn, peer, pc, call, source, rx, result,
                   trace>>

InitCodec == Start("codec") /\ flavor = "sync"

NextCodec == Encode \/ FeedChunked

SpecCodec == InitCodec /\ [][NextCodec]_vars

(***************************************************************************)
(* Operations running at the same time                                     *)
(***************************************************************************)

\* the reads one response arrives in
MaxParts == 2

\* the answer of the server to the request of caller t
AnswerTo(t) == [i \in 1..MaxParts |-> [to |-> t, part |-> i]]

\* a client that lets one operation at a time use its connection
MayStartAlone(t) ==
    \A u \in TaskIds \ {t} : ClientOf(u) = ClientOf(t) => tasks[u].pc # "reading"

\* what _send_and_receive asks for before it writes: nothing that depends on
\* another operation of the client
MayStart(t) == TRUE

\* _send_and_receive writes the request and awaits drain; the server answers
\* the requests of a connection in the order they were written
TaskWrite(t) ==
    /\ tasks[t].pc = "idle"
    /\ MayStart(t)
    /\ \E m \in {"REQMOD", "RESPMOD"} :
         tasks' = [tasks EXCEPT ![t] = [pc |-> "reading", method |-> m, got |-> <<>>]]
    /\ links' = [links EXCEPT ![ClientOf(t)] = @ \o AnswerTo(t)]
    /\ UNCHANGED <<flavor, scope, ncalls, script, aside, conn, peer, pc, call, source, rx,
                   result, trace>>

\* one read of _receive_response takes what is next on the connection
TaskRead(t) ==
    /\ tasks[t].pc = "reading"
    /\ links[ClientOf(t)] # <<>>
    /\ tasks' = [tasks EXCEPT ![t].got = Append(@, Head(links[ClientOf(t)])),
                              ![t].pc = IF Len(tasks[t].got) + 1 = MaxParts
                                        THEN "done" ELSE "reading"]
    /\ links' = [links EXCEPT ![ClientOf(t)] = Tail(@)]
    /\ UNCHANGED <<flavor, scope, ncalls, script, aside, conn, peer, pc, call, source, rx,
                   result, trace>>

Write == \E t \in TaskIds : TaskWrite(t)

Read == \E t \in TaskIds : TaskRead(t)

InitConcurrent == Start("concurrent") /\ flavor = "async"

NextConcurrent == Write \/ Read

SpecConcurrent == InitConcurrent /\ [][NextConcurrent]_vars

(***************************************************************************)
(* connect() of the cooperative client called by several tasks             *)
(***************************************************************************)

MaxOpens == 3

\* the tasks that share the one client of this part
Connectors == {"a", "b"}

\* connect(), or an operation that finds no writer and awaits connect(): with
\* a writer set it returns at once, otherwise the task is suspended in
\* open_connection
TaskConnect(t) ==
    /\ scope = "connecting"
    /\ tasks[t].pc = "idle"
    /\ \E m \in {"connect", "OPTIONS"} :
         tasks' = [tasks EXCEPT ![t] = [pc |-> IF writer # 0 THEN "done" ELSE "opening",
                                        method |-> m, got |-> <<>>]]
    /\ UNCHANGED <<flavor, scope, ncalls, script, links, aside, conn, peer, pc, call, source,
                   rx, result, trace>>

\* open_connection returns or fails: the new reader and writer are assigned
\* to the client, whatever it holds by now
TaskOpened(t) ==
    /\ scope = "connecting"
    /\ tasks[t].pc = "opening"
    /\ opened < MaxOpens
    /\ \E io \in IoResults :
         IF io = "ok"
         THEN /\ opened' = opened + 1 /\ live' = live \cup {opened + 1}
              /\ reader' = opened + 1 /\ writer' = opened + 1
              /\ tasks' = [tasks EXCEPT ![t].pc = "done"]
         ELSE /\ UNCHANGED <<opened, live, reader, writer>>
              /\ tasks' = [tasks EXCEPT ![t].pc = ConnectError(io)]
    /\ UNCHANGED <<flavor, scope, ncalls, script, links, aside, sock, connected, peer, pc,
                   call, source, rx, result, trace>>

\* the task goes on to its next call
TaskAgain(t) ==
    /\ scope = "connecting"
    /\ tasks[t].pc \notin {"idle", "opening"}
    /\ tasks' = [tasks EXCEPT ![t] = NoTask]
    /\ UNCHANGED <<flavor, scope, ncalls, script, links, aside, conn, peer, pc, call, source,
                   rx, result, trace>>

Connecting == \E t \in Connectors : TaskConnect(t)

Opened == \E t \in Connectors : TaskOpened(t)

Again == \E t \in Connectors : TaskAgain(t)

InitConnecting == Start("connecting") /\ flavor = "async"

NextConnecting == Connecting \/ Opened \/ Again \/ Disconnect

SpecConnecting == InitConnecting /\ [][NextConnecting]_vars

(***************************************************************************)
(* MockIcapClient: configured responses                                    *)
(***************************************************************************)

MaxQueued == 2
MaxExtraCalls == 2
MaxHistory == 3
MaxMatchers == 2

\* the scopes in which the mock is driven
MockScopes == {"mock", "resolve", "queues"}

\* what a test hands to on_options, on_respmod and on_reqmod: responses and
\* exceptions
MockItems(m) ==
    IF m = "options" THEN {"options"}
    ELSE {"clean", "virus", "IcapTimeoutError"}

\* isinstance(response_or_exception, Exception)
IsException(item) == item = "IcapTimeoutError"

RECURSIVE MockSequences(_, _)
MockSequences(m, k) ==
    IF k = 0 THEN {<<>>}
    ELSE {Append(q, r) : q \in MockSequences(m, k - 1), r \in MockItems(m)}

\* the methods a test configures, the responses it hands over, the public
\* methods it calls and the services it names, per scope
Configured(s) ==
    IF s \in {"mock", "resolve"} THEN {"respmod"} ELSE MockMethods

Handed(s, m) ==
    IF s = "mock" THEN UNION {MockSequences(m, k) : k \in 0..MaxQueued}
    ELSE IF s = "resolve" THEN {<<>>, <<"virus">>, <<"virus", "clean">>}
    ELSE {<<>>, <<"virus">>, <<"IcapTimeoutError", "virus">>}

Raisable(s) == IF s = "queues" THEN {""} ELSE {"", "IcapTimeoutError"}

Callbacks(s) == IF s = "resolve" THEN {"", "callback"} ELSE {""}

EntryPoints(s) ==
    IF s = "mock" THEN {"options", "respmod"}
    ELSE IF s = "resolve" THEN {"scan_bytes"}
    ELSE {"options", "respmod", "reqmod", "scan_bytes", "scan_file", "scan_stream"}

Services(s) == IF s = "resolve" THEN {"avscan", "other"} ELSE {"avscan"}

MaxHistoryOf(s) == IF s = "mock" THEN MaxHistory + 1 ELSE MaxHistory

\* the scans answering from the queue of reqmod
QueueOfScansApart(entry) ==
    IF entry \in {"options", "respmod"} THEN entry ELSE "reqmod"

\* the queue a public method answers from: options (line 1161), reqmod (1197),
\* respmod and the three scans (1180, 1212, 1231, 1249)
QueueOf(entry) ==
    IF entry \in {"options", "reqmod"} THEN entry ELSE "respmod"

\* the status code IcapResponseBuilder gives a response: options() and
\* virus() 200, clean() 204
StatusOf(item) == IF item = "clean" THEN 204 ELSE 200

\* a deque used as a stack: pop() in place of popleft()
PopRight(queue) ==
    [item |-> queue[Len(queue)], rest |-> SubSeq(queue, 1, Len(queue) - 1)]

\* queue.popleft()
PopLeft(queue) == [item |-> Head(queue), rest |-> Tail(queue)]

\* _get_response: an exception is raised, a response returned
GetResponse(item) == [how |-> IF IsException(item) THEN "raised" ELSE "returned", item |-> item]

\* ResponseMatcher.is_exhausted
IsExhausted(matcher) == matcher.times # 0 /\ matcher.match_count >= matcher.times

\* ResponseMatcher.matches: a criterion that is not given is not tested
Matches(matcher, kwargs) == matcher.service = "" \/ kwargs.service = matcher.service

\* the matchers that could answer the call
Answering(matchers, kwargs) ==
    {i \in 1..Len(matchers) : ~IsExhausted(matchers[i]) /\ Matches(matchers[i], kwargs)}

\* a search that keeps the matcher registered last
LastMatch(matchers, kwargs) ==
    IF Answering(matchers, kwargs) = {} THEN 0
    ELSE CHOOSE i \in Answering(matchers, kwargs) :
            \A j \in Answering(matchers, kwargs) : j <= i

\* for matcher in self._matchers: the first that is not exhausted and matches;
\* 0 when there is none
FirstMatch(matchers, kwargs) ==
    IF Answering(matchers, kwargs) = {} THEN 0
    ELSE CHOOSE i \in Answering(matchers, kwargs) :
            \A j \in Answering(matchers, kwargs) : i <= j

\* on_options / on_respmod / on_reqmod (responses, raises, callback): a
\* callback (on_respmod only) empties the queue; raises and a single response
\* replace the default and end queue mode; two or more responses are queued;
\* each of the three drops the callback; no argument changes nothing
OnMethod ==
    /\ scope \in MockScopes
    /\ \E m \in Configured(scope), raises \in Raisable(scope), callback \in Callbacks(scope) :
       \E responses \in Handed(scope, m) :
         /\ raises # "" => Len(responses) <= 1
         /\ callback # "" => (m = "respmod" /\ raises = "" /\ responses = <<>>)
         /\ mock' =
           IF callback # "" THEN
               [mock EXCEPT !.queue[m] = <<>>, !.queue_active[m] = FALSE,
                            !.callback[m] = callback,
                            !.queued[m] = <<>>, !.served[m] = 0, !.last[m] = NoLast]
           ELSE IF raises # "" THEN
               [mock EXCEPT !.queue[m] = <<>>, !.queue_active[m] = FALSE,
                            !.callback[m] = "",
                            !.default[m] = raises,
                            !.queued[m] = <<>>, !.served[m] = 0, !.last[m] = NoLast]
           ELSE IF Len(responses) = 1 THEN
               [mock EXCEPT !.queue[m] = <<>>, !.queue_active[m] = FALSE,
                            !.callback[m] = "",
                            !.default[m] = responses[1],
                            !.queued[m] = <<>>, !.served[m] = 0, !.last[m] = NoLast]
           ELSE IF Len(responses) > 1 THEN
               [mock EXCEPT !.queue[m] = responses, !.queue_active[m] = TRUE,
                            !.callback[m] = "",
                            !.queued[m] = responses, !.served[m] = 0,
                            !.last[m] = NoLast]
           ELSE mock
    /\ UNCHANGED <<flavor, scope, ncalls, script, tasks, links, with_block, conn, peer, pc,
                   call, source, rx, result, trace>>

\* when(service=...).respond(response, times=...): the matcher is appended
When ==
    /\ scope \in MockScopes
    /\ Len(mock.matchers) < MaxMatchers
    /\ \E service \in {"", "other"}, given \in {"virus", "clean"}, times \in {0, 1} :
         /\ (given = "clean") = (service = "")
         /\ mock' = [mock EXCEPT !.matchers =
                        Append(@, [service |-> service, response |-> given,
                                   times |-> times, match_count |-> 0])]
    /\ UNCHANGED <<flavor, scope, ncalls, script, tasks, links, with_block, conn, peer, pc,
                   call, source, rx, result, trace>>

\* _get_method_response, after the call was recorded: a matcher that matches
\* answers before anything else is looked at, then the callback; otherwise the
\* head of the queue, MockResponseExhaustedError when the queue is empty in
\* queue mode, the default when it is not in queue mode
GetMethodResponse(state, m, kwargs) ==
    LET found == FirstMatch(state.matchers, kwargs)
    IN  IF found # 0 THEN
            [state EXCEPT !.matchers[found].match_count = @ + 1,
                          !.last[m] = [how |-> "matched",
                                       item |-> state.matchers[found].response]]
        ELSE IF state.callback[m] # "" THEN
            [state EXCEPT !.last[m] = [how |-> "callback", item |-> state.callback[m]]]
        ELSE IF state.queue[m] # <<>> THEN
            [state EXCEPT !.queue[m] = PopLeft(state.queue[m]).rest,
                          !.last[m] = GetResponse(PopLeft(state.queue[m]).item),
                          !.served[m] = @ + 1]
        ELSE IF state.queue_active[m] THEN
            [state EXCEPT !.last[m] = [how |-> "raised",
                                       item |-> "MockResponseExhaustedError"],
                          !.served[m] = @ + 1]
        ELSE
            [state EXCEPT !.last[m] = GetResponse(state.default[m]),
                          !.served[m] = @ + 1]

\* options / respmod / reqmod / scan_bytes / scan_file / scan_stream of the
\* mock: _record_call, then _get_method_response on the queue of the method
MockCalled ==
    /\ scope \in MockScopes
    /\ Len(mock.calls) < MaxHistoryOf(scope)
    /\ \E entry \in EntryPoints(scope), service \in Services(scope) :
         LET kwargs == [method |-> entry, service |-> service]
             m == QueueOf(entry)
             found == FirstMatch(mock.matchers, kwargs)
         IN  /\ mock.served[m] < Len(mock.queued[m]) + MaxExtraCalls
             /\ found # 0 => mock.matchers[found].match_count < MaxExtraCalls
             /\ mock' = GetMethodResponse([mock EXCEPT !.calls = Append(@, kwargs)],
                                          m, kwargs)
    /\ UNCHANGED <<flavor, scope, ncalls, script, tasks, links, with_block, conn, peer, pc,
                   call, source, rx, result, trace>>

\* reset_responses: every queue emptied, no queue mode, the first defaults, no
\* callback, no matcher; the recorded calls stay
ResetResponses ==
    /\ scope \in MockScopes
    /\ mock' = [NewMock EXCEPT !.calls = mock.calls]
    /\ UNCHANGED <<flavor, scope, ncalls, script, tasks, links, with_block, conn, peer, pc,
                   call, source, rx, result, trace>>

\* a reset_calls that resets the responses as well
ResetCallsAndResponses ==
    /\ scope \in MockScopes
    /\ mock' = NewMock
    /\ UNCHANGED <<flavor, scope, ncalls, script, tasks, links, with_block, conn, peer, pc,
                   call, source, rx, result, trace>>

\* reset_calls: self._calls.clear()
ResetCalls ==
    /\ scope \in MockScopes
    /\ mock' = [mock EXCEPT !.calls = <<>>]
    /\ UNCHANGED <<flavor, scope, ncalls, script, tasks, links, with_block, conn, peer, pc,
                   call, source, rx, result, trace>>

InitMock == Start("mock") /\ flavor = "sync"

NextMock == OnMethod \/ MockCalled \/ ResetResponses

SpecMock == InitMock /\ [][NextMock]_vars

InitResolve == Start("resolve") /\ flavor = "sync"

NextResolve == OnMethod \/ When \/ MockCalled \/ ResetResponses \/ ResetCalls

SpecResolve == InitResolve /\ [][NextResolve]_vars

InitQueues == Start("queues") /\ flavor = "sync"

NextQueues == OnMethod \/ MockCalled

SpecQueues == InitQueues /\ [][NextQueues]_vars

(***************************************************************************)
(* The client as a context manager                                         *)
(***************************************************************************)

\* an __exit__ that returns True
ExitSuppressesAlways == TRUE

\* the value __exit__ / __aexit__ returns
ExitSuppresses == FALSE

\* __enter__ / __aenter__: connect(); an exception of connect leaves the
\* statement before the block is entered
Enter ==
    /\ pc = "idle" /\ with_block = "out"
    /\ AlreadyConnected \/ CanOpen
    /\ \E io \in IoResults :
         /\ IF AlreadyConnected THEN io = "ok" /\ UNCHANGED <<conn, peer>> ELSE ConnectEffect(io)
         /\ IF io = "ok"
            THEN with_block' = "in" /\ UNCHANGED <<pc, raised>>
            ELSE with_block' = "out" /\ RaiseFrom(ConnectError(io), io)
    /\ UNCHANGED <<flavor, scope, ncalls, script, tasks, links, mock, call, source, rx,
                   response, parsed, trace>>

\* __exit__ / __aexit__ when the block is left, after a return or with the
\* exception of an operation: disconnect(), then the exception goes on unless
\* the return value suppresses it
Exit ==
    /\ with_block = "in" /\ pc \in {"idle", "done"}
    /\ with_block' = "left"
    /\ IF flavor = "sync"
       THEN /\ sock' = 0 /\ connected' = FALSE
            /\ live' = CloseHeld(sock)
            /\ UNCHANGED <<reader, writer, opened>>
       ELSE /\ writer' = 0
            /\ reader' = IF writer # 0 THEN 0 ELSE reader
            /\ live' = CloseHeld(writer)
            /\ UNCHANGED <<sock, connected, opened>>
    /\ IF ExitSuppresses /\ pc = "done" /\ outcome # "Response"
       THEN outcome' = "" /\ cause' = ""
       ELSE UNCHANGED raised
    /\ UNCHANGED <<flavor, scope, ncalls, script, tasks, links, mock, peer, pc, call, source,
                   rx, response, parsed, trace>>

InitManaged == Start("managed")

NextManaged == Enter \/ Call \/ Send \/ RecvHeaders \/ Scan \/ Finish \/ Exit

SpecManaged == InitManaged /\ [][NextManaged]_vars

(***************************************************************************)
(* The requests reqmod, respmod and the stream scan build and write        *)
(***************************************************************************)

InitBuild == Start("build")

NextBuild == Call \/ Send \/ StreamHeadSend

SpecBuild == InitBuild /\ [][NextBuild]_vars

(***************************************************************************)
(* Properties                                                              *)
(***************************************************************************)

RECURSIVE Concat(_)
Concat(strings) == IF strings = <<>> THEN "" ELSE Head(strings) \o Concat(Tail(strings))

\* the call is a respmod given a preview size
PreviewCall == args.method = "RESPMOD" /\ args.has_preview

\* the call ended at its parse step: a response read was started and neither a
\* failed write or read nor the header scan ended the call before
EndedAtParse ==
    /\ pc = "done"
    /\ NumReceives >= 1
    /\ outcome \notin {"IcapTimeoutError", "IcapConnectionError"}
    /\ ~length.value_error

\* the bytes written between the first and the second response read
WrittenAfterFirstReceive ==
    LET first == MinOf({i \in 1..Len(trace) : trace[i].event = "receive"})
        later == SelectSeq(SubSeq(trace, first + 1, Len(trace)), LAMBDA e : e.event = "write")
    IN  Concat([i \in 1..Len(later) |-> later[i].data])

InServerErrorRange(status_code) == status_code >= 500 /\ status_code <= 599

\* C1: when a response declares Content-Length: L and the connection closes
\* before L body bytes were received, the call fails with IcapProtocolError; no
\* Response with a short body is returned.
C1_IncompleteBodyIsProtocolError ==
    (pc = "done" /\ length.has_length /\ peerClosed /\ bytes_read < length.content_length)
        => outcome = "IcapProtocolError"

\* C2: chunked decoding yields a body only after a zero-size chunk: an invalid
\* chunk-size line, or the connection closing before a size line or before the
\* bytes of a chunk are buffered, makes the call fail with IcapProtocolError.
C2_ChunkedEndsOnlyAtZeroChunk ==
    (pc = "done" /\ chunk.how \in {"invalid_size", "closed"})
        => outcome = "IcapProtocolError"

\* C3: respmod with preview N and len(body) <= N reads exactly one response and
\* treats it as final whatever its status; nothing is written after that read
\* and no second response is read.
C3_CompletePreviewReadsOneResponse ==
    (PreviewCall /\ Len(args.http_body) <= args.preview)
        => (NumReceives <= 1 /\ Len(Writes) <= 1)

\* C4: respmod with a positive preview N and len(body) <= N, the empty body
\* included, makes exactly one write, whose chunk-size line carries the ieof
\* marker.
C4_CompletePreviewOneWriteWithIeof ==
    (PreviewCall /\ args.preview >= 1 /\ Len(args.http_body) <= args.preview
       /\ Len(Writes) >= 1)
        => (Len(Writes) = 1 /\ Contains(Writes[1], "; ieof" \o CRLF))

C7_NonPositivePreviewRejected ==
    (PreviewCall /\ args.preview <= 0)
        => (pc = "done" /\ outcome = "ValueError" /\ trace = <<>>)

\* C8: in options, reqmod, respmod (preview included) and the stream scan, a
\* parsed response with a status code in [500,600) raises IcapServerError and
\* is never returned; a parsed response with any other status is returned (a
\* first 100 Continue of _send_with_preview is followed by the final read
\* instead); the request is written once, never retried.
C8_ServerErrorIffStatus5xx ==
    LET last == parsed[Len(parsed)]
        continued == routine = "send_with_preview" /\ Len(parsed) = 1 /\ last = 100
    IN  /\ (pc = "done" /\ outcome \in {"Response", "IcapServerError"}) =>
              /\ Len(parsed) >= 1
              /\ response.status_code = last
              /\ (outcome = "IcapServerError") <=> InServerErrorRange(last)
        /\ (Len(parsed) >= 1 /\ InServerErrorRange(last)) =>
              (pc = "done" /\ outcome = "IcapServerError")
        /\ (Len(parsed) >= 1 /\ ~InServerErrorRange(last) /\ ~continued) =>
              (pc = "done" /\ outcome = "Response")
        /\ Cardinality({i \in 1..Len(Writes) : Writes[i] = request}) <= 1
        /\ NumReceives <= IF routine = "send_with_preview" THEN 2 ELSE 1

C8_Witness ==
    /\ pc = "done" /\ outcome = "IcapServerError"
    /\ response.status_code = 503 /\ response.body = "no"
    /\ args.method = "REQMOD"

\* C9: on every receive path, received bytes that fail parsing surface as
\* IcapProtocolError: not as a server error, an unwrapped ValueError or a
\* returned Response.
C9_ParseFailureIsProtocolError ==
    (EndedAtParse /\ ~ParseOk(response_data)) => outcome = "IcapProtocolError"

\* C10: a response whose Content-Length value is not an integer fails with
\* IcapProtocolError as soon as the headers are complete.
C10_BadContentLengthIsProtocolError ==
    (pc = "done" /\ length.value_error) => outcome = "IcapProtocolError"

\* the connection the client holds (0 = none)
Held == IF flavor = "sync" THEN sock ELSE writer

\* C11: a send or a receive that fails with an OS-level socket error raises
\* IcapConnectionError and leaves the client Disconnected (is_connected False);
\* an operation started on a Disconnected client that gets to send has opened
\* a new connection first and sends on it.
C11_ConnectionErrorDisconnects ==
    /\ []((pc = "done" /\ cause = "oserror" /\ trace # <<>>)
            => (outcome = "IcapConnectionError" /\ ~IsConnected))
    /\ [][(pc = "idle" /\ pc' = "send" /\ ~IsConnected)
            => (opened' = opened + 1 /\ Held' = opened' /\ Held' \in live' /\ IsConnected')]_vars

C11_Witness ==
    /\ pc = "send" /\ ncalls = 1
    /\ IsConnected /\ Held = 2
    /\ live = {1, 2}

\* C12: a send that times out raises IcapTimeoutError and invalidates the
\* connection: is_connected is False afterwards.
C12_SendTimeoutInvalidates ==
    (pc = "done" /\ cause = "timeout" /\ trace # <<>> /\ NumReceives = 0)
        => (outcome = "IcapTimeoutError" /\ ~IsConnected)

\* C13: a cooperative operation cancelled at a suspension point of its send or
\* receive closes the connection it was using and leaves the client
\* Disconnected.
C13_CancelClosesConnection ==
    (pc = "done" /\ outcome = "CancelledError")
        => (~IsConnected /\ opened \notin live)

\* C14: connect() on a Connected client changes nothing: no connection is
\* opened and the client stays Connected; a connect() that takes the client
\* from Disconnected to Connected opens exactly one connection.
C14_ConnectIsIdempotent ==
    [][(pc = "idle" /\ pc' = "idle" /\ IsConnected')
         => IF IsConnected
            THEN UNCHANGED conn
            ELSE opened' = opened + 1 /\ live' = live \cup {opened'}]_vars

C14_Witness ==
    /\ pc = "idle" /\ ncalls = 0
    /\ IsConnected /\ opened = 1 /\ live = {1}

\* C15: an operation called on a Disconnected client connects exactly once
\* before any request byte is written (or fails with the error of connect and
\* writes nothing); called on a Connected client it opens no connection; no
\* connection is opened during the rest of the operation.
C15_OperationsAutoConnectOnce ==
    /\ [][(pc = "idle" /\ pc' # "idle")
            => /\ trace' = <<>>
               /\ IF IsConnected
                  THEN UNCHANGED conn /\ pc' = "send"
                  ELSE \/ /\ opened' = opened + 1 /\ Held' = opened' /\ IsConnected'
                          /\ pc' = "send"
                       \/ /\ opened' = opened /\ ~IsConnected'
                          /\ pc' = "done" /\ cause' # ""
                          /\ outcome' \in {"IcapTimeoutError", "IcapConnectionError"}]_vars
    /\ [][pc # "idle" => opened' = opened]_vars

C15_Witness ==
    /\ pc = "send" /\ ncalls = 0 /\ trace = <<>>
    /\ args.method = "OPTIONS"
    /\ IsConnected /\ opened = 1

\* C16: disconnect() from any state leaves the client Disconnected, holding no
\* socket, with the connection it held closed; on a client that holds nothing
\* it changes nothing; a connect() after it opens a connection that did not
\* exist before, with its own byte stream.
C16_DisconnectThenFreshConnect ==
    /\ [][Disconnect
            => /\ ~IsConnected' /\ sock' = 0 /\ writer' = 0 /\ reader' = 0
               /\ Held \notin live'
               /\ opened' = opened
               /\ Held = 0 => UNCHANGED vars]_vars
    /\ [][(pc = "idle" /\ pc' = "idle" /\ ~IsConnected /\ IsConnected')
            => /\ opened' = opened + 1 /\ Held' = opened'
               /\ Held' \notin live /\ Held' \in live'
               /\ pending' = "" /\ ~peerClosed']_vars

C16_Witness ==
    /\ pc = "idle"
    /\ IsConnected /\ Held = 2
    /\ live = {2}

\* C17: in every reachable state at most one connection the client opened is
\* still open.
C17_AtMostOneOpenConnection == Cardinality(live) <= 1

\* C18: on every sequence of read results (data, empty read, timeout) the
\* blocking and the cooperative receive routine end the same way, with the same
\* response or error, after the same number of reads.
C18_ReceivePathsAgree == script.sync = script.async

\* C18 witness: both routines return a response whose Content-Length body was
\* completed by a third read that was cut to the bytes still missing.
C18_Witness ==
    /\ Len(script.reads) = 3
    /\ script.sync.outcome = "Response" /\ script.async.outcome = "Response"
    /\ script.sync.response.body = "abc" /\ script.async.response.body = "abc"
    /\ script.sync.reads = 3 /\ script.async.reads = 3

\* the bytes of the first write of the running call, its ICAP head and the
\* encapsulated block that follows the head
FirstWrite == Events("write")[1].data
IcapHead(data) == Split(data, header_end_marker, 1)[1]
EncapsulatedBlock(data) == Split(data, header_end_marker, 1)[2]

\* the header lines of the ICAP head as they were written: <<name, value>>
WrittenHeaders(data) ==
    LET lines == Tail(Split(IcapHead(data), CRLF, -1))
    IN  [i \in 1..Len(lines) |-> Split(lines[i], ": ", 1)]

Names(pairs) == [i \in 1..Len(pairs) |-> pairs[i][1]]
ValueOf(pairs, k) == pairs[CHOOSE i \in 1..Len(pairs) : pairs[i][1] = k][2]

\* the sections an Encapsulated value lists: name and offset
ListedSections(value) ==
    LET entries == Split(value, ", ", -1)
    IN  [i \in 1..Len(entries) |->
            [name |-> Split(entries[i], "=", 1)[1],
             offset |-> ToInt(Split(entries[i], "=", 1)[2], 10)]]

\* the encapsulated header sections a call hands over, in the order sent
PriorSections(a) ==
    IF a.method = "REQMOD" THEN << <<"req-hdr", a.http_request>> >>
    ELSE IF a.method = "SCAN_STREAM"
    THEN << <<"req-hdr", StreamHttpRequest>>, <<"res-hdr", StreamHttpResponseHeaders>> >>
    ELSE (IF a.http_request # "" THEN << <<"req-hdr", a.http_request>> >> ELSE <<>>)
             \o << <<"res-hdr", ResponseHeaders(a.http_res_headers \o a.http_body)>> >>

LastSection(a) ==
    IF a.method = "REQMOD" THEN (IF a.http_body # "" THEN "req-body" ELSE "null-body")
    ELSE "res-body"

OverridesEncapsulated(a) == \E i \in 1..Len(a.headers) : a.headers[i][1] = "Encapsulated"

\* C19: in every request written by reqmod, respmod or the chunked stream scan
\* whose caller does not override Encapsulated, the first listed section has
\* offset 0, every later offset is the byte length of the sections sent before
\* it, and the encapsulated block holds exactly those sections at those offsets.
C19_EncapsulatedOffsetsAreCumulative ==
    (pc # "idle" /\ Events("write") # <<>>
        /\ args.method \in {"REQMOD", "RESPMOD", "SCAN_STREAM"}
        /\ ~OverridesEncapsulated(args))
    => LET listed == ListedSections(ValueOf(WrittenHeaders(FirstWrite), "Encapsulated"))
           prior == PriorSections(args)
           block == EncapsulatedBlock(FirstWrite)
       IN  /\ Len(listed) = Len(prior) + 1
           /\ listed[1].offset = 0
           /\ \A i \in 1..Len(prior) :
                /\ listed[i].name = prior[i][1]
                /\ listed[i + 1].offset = listed[i].offset + Len(prior[i][2])
                /\ listed[i + 1].offset <= Len(block)
                /\ SubSeq(block, listed[i].offset + 1, listed[i + 1].offset) = prior[i][2]
           /\ listed[Len(listed)].name = LastSection(args)
           /\ LastSection(args) = "null-body"
                => From(block, listed[Len(listed)].offset + 1) = ""

\* C19 witness: a RESPMOD with an 18-byte request and 19 bytes of response
\* headers was written with req-hdr=0, res-hdr=18, res-body=37.
C19_Witness ==
    /\ pc # "idle" /\ Events("write") # <<>>
    /\ args.method = "RESPMOD" /\ args.http_request = HttpRequest /\ args.http_body = "ab"
    /\ args.headers = <<>>
    /\ ValueOf(WrittenHeaders(FirstWrite), "Encapsulated") = "req-hdr=0, res-hdr=18, res-body=37"

\* the header names reqmod / respmod set themselves, in the order they set them
DefaultNames(a) ==
    <<"Host", "User-Agent", "Allow", "Encapsulated">>
        \o (IF a.has_preview THEN <<"Preview">> ELSE <<>>)

IsDefaultName(a, k) == \E i \in 1..Len(DefaultNames(a)) : DefaultNames(a)[i] = k

NewNames(a) == SelectSeq(Names(a.headers), LAMBDA k : ~IsDefaultName(a, k))

\* C20: in every request written by reqmod or respmod the header block lists
\* the default keys in their order followed by the caller's new keys in theirs,
\* each key once; a key the caller gave carries the caller's value, a default
\* key the caller did not give keeps its default; the block is the request
\* line, one 'Name: value' CRLF per key and an empty line.
C20_ExtraHeadersMergedOnce ==
    (pc # "idle" /\ Events("write") # <<>> /\ args.method \in {"REQMOD", "RESPMOD"})
    => LET written == WrittenHeaders(FirstWrite)
           block == RequestLine(args.method) \o HeaderLines(written) \o CRLF
       IN  /\ Names(written) = DefaultNames(args) \o NewNames(args)
           /\ \A i \in 1..Len(args.headers) :
                ValueOf(written, args.headers[i][1]) = args.headers[i][2]
           /\ \A d \in {<<"Host", HostPort>>, <<"User-Agent", USER_AGENT>>, <<"Allow", "204">>} :
                (\A i \in 1..Len(args.headers) : args.headers[i][1] # d[1])
                    => ValueOf(written, d[1]) = d[2]
           /\ Len(block) <= Len(FirstWrite)
           /\ Upto(FirstWrite, Len(block)) = block

\* C20 witness: a REQMOD whose caller gave a new key and then Host was written
\* with the caller's Host in the default's place and the new key last.
C20_Witness ==
    /\ pc # "idle" /\ Events("write") # <<>>
    /\ args.method = "REQMOD" /\ args.headers = << <<"X-Id", "7">>, <<"Host", "proxy">> >>
    /\ Names(WrittenHeaders(FirstWrite)) = <<"Host", "User-Agent", "Allow", "Encapsulated", "X-Id">>
    /\ ValueOf(WrittenHeaders(FirstWrite), "Host") = "proxy"
    /\ ValueOf(WrittenHeaders(FirstWrite), "X-Id") = "7"

\* a parsed response that carries no body-length indicator
CarriesNoLength(parsed_response) ==
    \A i \in 1..Len(parsed_response.headers) :
        /\ Lower(parsed_response.headers[i][1]) # "content-length"
        /\ ~(Lower(parsed_response.headers[i][1]) = "transfer-encoding"
               /\ Contains(Lower(parsed_response.headers[i][2]), "chunked"))

\* C21: a response whose headers carry neither Content-Length nor
\* Transfer-Encoding: chunked is returned by both receive routines with an
\* empty body, whatever was read past the header terminator.
C21_NoLengthResponseHasEmptyBody ==
    \A r \in {script.sync, script.async} :
        (r.outcome = "Response" /\ CarriesNoLength(r.response)) => r.response.body = ""

\* a decoder has the whole stream or has returned
Settled(decoded) == script.fed = Len(script.stream) \/ decoded.at = "return"

\* C22: for every body b, the empty one included, decoding
\* _encode_chunked(b) followed by the terminator returns exactly b, however the
\* bytes reach the decoder.
C22_ChunkCodecRoundTrip ==
    (Decoding /\ script.made = "encoded")
    => \A d \in {script.sync, script.async} :
         Settled(d) => (d.at = "return" /\ d.body = script.payload)

\* C22 witness: a 16-byte body encoded with the size line 10 was decoded back
\* in several reads.
C22_Witness ==
    /\ Decoding /\ script.made = "encoded" /\ Len(script.payload) = 16
    /\ script.fed = Len(script.stream) /\ script.reads >= 2
    /\ Upto(script.stream, 4) = "10\r\n"
    /\ script.sync.at = "return" /\ script.sync.body = script.payload

\* C23: for every well-formed chunked stream and every way of splitting it
\* between the initial buffer and the reads that follow, the decoder returns
\* the chunk payloads in order, without size lines, extensions and CRLFs.
C23_ChunkedDecodingUnderAnySplit ==
    (Decoding /\ script.made = "wire")
    => \A d \in {script.sync, script.async} :
         Settled(d) => (d.at = "return" /\ d.body = script.payload)

\* C23 witness: a stream of two chunks with extensions, split over an initial
\* buffer and at least three reads, was decoded to its payloads.
C23_Witness ==
    /\ Decoding /\ script.made = "wire" /\ script.payload = "abcd"
    /\ script.fed = Len(script.stream) /\ script.reads >= 3
    /\ script.sync.at = "return" /\ script.sync.body = "abcd"
    /\ script.async.at = "return" /\ script.async.body = "abcd"

\* C24: a failure to read from the caller's stream during scan_stream surfaces
\* as IcapProtocolError and leaves the client Connected.
C24_StreamReadFailureIsProtocolError ==
    (pc = "done" /\ cause = "stream_read") => (outcome = "IcapProtocolError" /\ IsConnected)

\* the non-empty pieces of at most n bytes a stream is read in
RECURSIVE Pieces(_, _)
Pieces(content, n) ==
    IF content = "" THEN <<>>
    ELSE <<SliceTo(content, n)>> \o Pieces(SliceFrom(content, n), n)

RECURSIVE ChunksOf(_)
ChunksOf(pieces) ==
    IF pieces = <<>> THEN ""
    ELSE HexStr(Len(Head(pieces))) \o CRLF \o Head(pieces) \o CRLF \o ChunksOf(Tail(pieces))

\* the positions of the trace at which a response read was started
ReceivePositions == {i \in 1..Len(trace) : trace[i].event = "receive"}

C28_ContextManagerConnectsAndDisconnects ==
    /\ [][(with_block = "out" /\ with_block' = "in") => IsConnected']_vars
    /\ [](with_block = "in" /\ pc = "idle" /\ ncalls = 0 => IsConnected)
    /\ [](with_block = "left" => (~IsConnected /\ Held = 0 /\ sock = 0 /\ writer = 0))
    /\ [][(with_block = "in" /\ with_block' = "left")
            => (pc' = pc /\ outcome' = outcome /\ cause' = cause /\ Held \notin live')]_vars

\* C28 witness: the block was left with the IcapConnectionError of an
\* operation; the blocking client is Disconnected, its socket closed, and the
\* exception is still there.
C28_Witness ==
    /\ with_block = "left" /\ flavor = "sync" /\ pc = "done"
    /\ outcome = "IcapConnectionError" /\ cause = "oserror" /\ trace # <<>>
    /\ ~IsConnected /\ opened = 1 /\ live = {}

\* C29: a connect() that fails ends with IcapTimeoutError when the attempt
\* timed out and with IcapConnectionError after any other failure; the client
\* is then Disconnected and holds no socket or writer, so that the next
\* connect() does not return early and makes a new attempt.
C29_FailedConnectLeavesDisconnected ==
    [][(pc = "idle" /\ pc' = "done" /\ cause' \in {"timeout", "oserror"})
        => /\ outcome' = (IF cause' = "timeout" THEN "IcapTimeoutError"
                                                ELSE "IcapConnectionError")
           /\ ~IsConnected' /\ ~AlreadyConnected'
           /\ Held' = 0 /\ sock' = 0 /\ writer' = 0 /\ reader' = 0
           /\ opened' = opened /\ live' = live]_vars

\* C29 witness: a second operation, after one whose connect had failed, made
\* a new attempt, which timed out; no connection was ever opened.
C29_Witness ==
    /\ pc = "done" /\ trace = <<>> /\ ncalls = 1 /\ opened = 0
    /\ cause = "timeout" /\ outcome = "IcapTimeoutError"
    /\ ~IsConnected /\ Held = 0

\* C30: after two or more responses were queued for a method, the i-th call
\* since then that came to the queue got the i-th of them, returned or, for
\* an exception, raised, with the items after it still queued; every call
\* past the last got MockResponseExhaustedError. Calls of another method
\* take nothing from the queue. Once the
\* method was given a single response or an exception, or reset_responses was
\* called, the queue is empty and calls get the default again.
C30_QueuedResponsesInOrderThenExhausted ==
    \A m \in MockMethods :
        LET queued == mock.queued[m]
            i == mock.served[m]
        IN  IF Len(queued) >= 2
            THEN
              /\ mock.queue_active[m]
              /\ mock.queue[m] = SubSeq(queued, i + 1, Len(queued))
              /\ (i >= 1 /\ i <= Len(queued) /\ mock.last[m].how # "matched")
                   => mock.last[m] = [how |-> IF IsException(queued[i]) THEN "raised"
                                                                        ELSE "returned",
                                      item |-> queued[i]]
              /\ (i > Len(queued) /\ mock.last[m].how # "matched")
                   => mock.last[m] = [how |-> "raised", item |-> "MockResponseExhaustedError"]
            ELSE
              /\ ~mock.queue_active[m] /\ mock.queue[m] = <<>>
              /\ (i >= 1 /\ mock.last[m].how # "matched")
                   => mock.last[m].item = mock.default[m]

\* C30 witness: an exception and then a response were queued for respmod;
\* the exception was raised, the response returned by the next call, and
\* the call after that raised MockResponseExhaustedError; a call of options
\* was made in between and got the default of options.
C30_Witness ==
    /\ mock.queued["respmod"] = <<"IcapTimeoutError", "virus">>
    /\ mock.served["respmod"] = 3
    /\ mock.last["respmod"] = [how |-> "raised", item |-> "MockResponseExhaustedError"]
    /\ Len(mock.calls) = 4 /\ mock.calls[2].method = "options"
    /\ mock.last["options"] = [how |-> "returned", item |-> "options"]

\* the call that a step of the mock recorded, and the queue it answers from
Recorded == mock'.calls[Len(mock'.calls)]

IsMockCall == Len(mock'.calls) = Len(mock.calls) + 1

\* C31: every call of the mock is answered by the first registered matcher
\* that is not exhausted and matches it; with no such matcher by the callback
\* of the method; with no callback by the head of the method's queue, which
\* the call removes; with an empty queue by MockResponseExhaustedError in
\* queue mode and by the default response otherwise. A callback is never set
\* together with queued responses, and configuring a response, an exception
\* or a sequence removes the callback.
C31_ResolutionOrder ==
    /\ [][IsMockCall =>
           LET m == QueueOf(Recorded.method)
               candidates == {i \in 1..Len(mock.matchers) :
                                /\ mock.matchers[i].times # 0
                                     => mock.matchers[i].match_count < mock.matchers[i].times
                                /\ mock.matchers[i].service \in {"", Recorded.service}}
               answer == mock'.last[m]
           IN  IF candidates # {}
               THEN /\ \E i \in candidates :
                         /\ \A j \in candidates : i <= j
                         /\ answer = [how |-> "matched", item |-> mock.matchers[i].response]
                         /\ mock'.matchers[i].match_count = mock.matchers[i].match_count + 1
                    /\ mock'.queue = mock.queue
               ELSE IF mock.callback[m] # ""
               THEN answer = [how |-> "callback", item |-> mock.callback[m]]
                    /\ mock'.queue = mock.queue
               ELSE IF mock.queue[m] # <<>>
               THEN /\ answer = [how |-> IF IsException(mock.queue[m][1]) THEN "raised"
                                                                          ELSE "returned",
                                 item |-> mock.queue[m][1]]
                    /\ mock'.queue[m] = Tail(mock.queue[m])
               ELSE IF mock.queue_active[m]
               THEN answer = [how |-> "raised", item |-> "MockResponseExhaustedError"]
               ELSE answer.item = mock.default[m]]_vars
    /\ [](\A m \in MockMethods :
            mock.callback[m] # "" => (mock.queue[m] = <<>> /\ ~mock.queue_active[m]))
    /\ [][mock'.calls = mock.calls
           => \A m \in MockMethods :
                (mock'.default[m] # mock.default[m]
                    \/ (mock'.queue[m] # mock.queue[m] /\ mock'.queue[m] # <<>>))
                    => mock'.callback[m] = ""]_vars

\* C31 witness: two matchers match the call and a callback is set; the call
\* got the response of the matcher registered first.
C31_Witness ==
    /\ Len(mock.matchers) = 2 /\ mock.calls # <<>>
    /\ mock.matchers[1].service = "other" /\ mock.matchers[1].response = "virus"
    /\ mock.matchers[2].service = "" /\ mock.matchers[2].response = "clean"
    /\ mock.matchers[1].match_count = 1 /\ mock.matchers[2].match_count = 0
    /\ mock.matchers[2].times = 0
    /\ mock.calls[Len(mock.calls)].service = "other"
    /\ mock.callback["respmod"] = "callback"
    /\ mock.last["respmod"] = [how |-> "matched", item |-> "virus"]

\* the response configuration of the mock: everything but the recorded calls
\* and the record of how calls ended
Configuration(state) ==
    <<state.queue, state.queue_active, state.default, state.callback, state.matchers>>

\* C32: reset_responses empties every queue, ends queue mode, removes every
\* callback and matcher and restores the defaults (200 for options, 204 for
\* respmod and reqmod) and leaves the recorded calls as they are; reset_calls
\* empties the recorded calls and leaves the response configuration as it is.
C32_ResetsTouchOnlyTheirPart ==
    /\ [][ResetResponses =>
            /\ \A m \in MockMethods :
                 /\ mock'.queue[m] = <<>> /\ ~mock'.queue_active[m]
                 /\ mock'.callback[m] = ""
                 /\ ~IsException(mock'.default[m])
                 /\ StatusOf(mock'.default[m]) = (IF m = "options" THEN 200 ELSE 204)
            /\ mock'.matchers = <<>>
            /\ mock'.calls = mock.calls]_vars
    /\ [][ResetCalls =>
            /\ mock'.calls = <<>>
            /\ Configuration(mock') = Configuration(mock)]_vars

\* C32 witness: calls are recorded and the mock has the configuration it was
\* built with although none of the recorded calls was answered since the last
\* configuration: reset_responses was called after them.
C32_Witness ==
    /\ Len(mock.calls) = MaxHistory
    /\ mock = [NewMock EXCEPT !.calls = mock.calls]

\* C33: a call of respmod, scan_bytes, scan_file or scan_stream takes the head
\* of the one respmod queue, a call of options that of the options queue, a
\* call of reqmod that of the reqmod queue; the queue, the queue mode and the
\* default response of the two other methods are the same after the call as
\* before it.
C33_ScansShareRespmodQueueOthersIndependent ==
    [][IsMockCall =>
        LET own == IF Recorded.method \in {"respmod", "scan_bytes", "scan_file", "scan_stream"}
                   THEN "respmod" ELSE Recorded.method
        IN  /\ own \in MockMethods
            /\ \A other \in MockMethods \ {own} :
                 /\ mock'.queue[other] = mock.queue[other]
                 /\ mock'.queue_active[other] = mock.queue_active[other]
                 /\ mock'.default[other] = mock.default[other]
                 /\ mock'.served[other] = mock.served[other]
            /\ mock'.queue_active[own] = mock.queue_active[own]
            /\ mock'.default[own] = mock.default[own]
            /\ IF mock.queue[own] # <<>>
               THEN /\ mock'.queue[own] = Tail(mock.queue[own])
                    /\ mock'.last[own].item = Head(mock.queue[own])
               ELSE /\ mock'.queue[own] = <<>>
                    /\ mock'.last[own].item = (IF mock.queue_active[own]
                                               THEN "MockResponseExhaustedError"
                                               ELSE mock.default[own])]_vars

\* C33 witness: the same two items were queued for each method; scan_file
\* took the first of the respmod queue, options one of its own queue, then
\* scan_stream the second of the respmod queue; the reqmod queue is whole.
C33_Witness ==
    /\ Len(mock.calls) = 3
    /\ mock.calls[1].method = "scan_file" /\ mock.calls[2].method = "options"
    /\ mock.calls[3].method = "scan_stream"
    /\ \A m \in MockMethods : mock.queued[m] = <<"IcapTimeoutError", "virus">>
    /\ mock.queue["respmod"] = <<>>
    /\ mock.last["respmod"] = [how |-> "returned", item |-> "virus"]
    /\ mock.queue["options"] = <<"virus">>
    /\ mock.queue["reqmod"] = <<"IcapTimeoutError", "virus">>

\* the bytes of a sequence of read results, one after the other
RECURSIVE Joined(_)
Joined(reads) == IF reads = <<>> THEN "" ELSE Head(reads).data \o Joined(Tail(reads))

\* the peer closed before the header terminator: data, then an empty read,
\* with no CRLF CRLF in the data
ClosedBeforeHeaderEnd(reads) ==
    /\ reads # <<>>
    /\ reads[Len(reads)].kind = "eof"
    /\ \A i \in 1..(Len(reads) - 1) : reads[i].kind = "data"
    /\ ~Contains(Joined(reads), header_end_marker)

\* C34: when the peer closes before CRLF CRLF was received, neither receive
\* routine returns a Response; the operation ends with an error, also when the
\* bytes received begin with a well-formed status line.
C34_CloseBeforeHeaderEndIsError ==
    ClosedBeforeHeaderEnd(script.reads)
        => /\ script.sync.outcome \notin {"Response", "blocked"}
           /\ script.async.outcome \notin {"Response", "blocked"}

\* C35: a Response returned by an operation is made of the bytes the server
\* sent in answer to the request of that operation, also when an earlier
\* operation on the client ended with a timeout and left its answer unread.
C35_ResponseAnswersOwnRequest ==
    (pc = "done" /\ outcome = "Response")
        => \E k \in 1..Len(AnswerToCall(ncalls)) :
              /\ ParseOk(Upto(AnswerToCall(ncalls), k))
              /\ response = Parse(Upto(AnswerToCall(ncalls), k))

\* the value of the last Content-Length header of a parsed response, as the
\* receive routines read it (the last one wins)
RECURSIVE DeclaredLength(_, _)
DeclaredLength(headers, none) ==
    IF headers = <<>> THEN none
    ELSE IF Lower(headers[Len(headers)][1]) = "content-length"
              /\ IsInt(Strip(headers[Len(headers)][2]), 10)
    THEN ToInt(Strip(headers[Len(headers)][2]), 10)
    ELSE DeclaredLength(SubSeq(headers, 1, Len(headers) - 1), none)

\* C36: a returned Response that declares Content-Length: L has a body of at
\* most L bytes, also when the reads of the header loop delivered more than
\* L bytes after the header terminator.
C36_BodyWithinContentLength ==
    \A r \in {script.sync, script.async} :
        (r.outcome = "Response" /\ DeclaredLength(r.response.headers, -1) >= 0)
            => Len(r.response.body) <= DeclaredLength(r.response.headers, -1)

\* C37: on every sequence of read results the receive routine of the chunked
\* stream scan and the receive part of _send_and_receive end the same way,
\* with the same Response or the same error after the same number of reads.
C37_BlockingReceivePathsAgree ==
    "stream" \in DOMAIN script => script.sync = script.stream

\* C38: whatever the tasks calling connect() or an auto-connecting operation
\* on one cooperative client do, at most one opened connection exists and it
\* is the one the client holds: none is replaced without being closed.
C38_ConcurrentConnectOpensOne ==
    scope = "connecting" => (Cardinality(live) <= 1 /\ live \subseteq {writer})

\* the loops of a receive: the header loop, the Content-Length loop, the
\* chunked loop
InReceiveLoop == pc \in {"headers", "body", "chunks"}

\* C39: a read that leaves the client in the loop it was in has taken at
\* least one byte from what the peer sent, and with every read returning
\* (data, an empty result, a timeout or an error) each receive loop is left:
\* the operation gets to parsing what it received or ends with an error.
C39_ReceivingTerminates ==
    /\ [][(InReceiveLoop /\ pc' = pc) => Len(pending') < Len(pending)]_vars
    /\ InReceiveLoop ~> (pc \in {"parse", "done"})

\* C39 witness: the peer closed inside a chunk; the chunked loop was left by
\* the empty read with part of the body decoded, and the operation ended with
\* a Response.
C39_Witness ==
    /\ scope = "returning" /\ pc = "done" /\ outcome = "Response"
    /\ length.is_chunked /\ chunk.how = "closed" /\ chunk.body = "abc"
    /\ peerClosed /\ pending = ""

\* what is_connected says and what the client holds fit together
HoldsWhatItSays ==
    IF flavor = "sync" THEN connected => sock # 0 ELSE (reader = 0) = (writer = 0)

\* the operation ended at the test of _send_and_receive for a missing socket
\* or stream: IcapConnectionError("Not connected to ICAP server"), raised
\* without a cause
FailsNotConnected == pc = "done" /\ outcome = "IcapConnectionError" /\ cause = ""

\* C40: through every sequence of connect, disconnect, operations and their
\* failures, a blocking client whose is_connected is True holds a socket and a
\* cooperative client holds a reader exactly if it holds a writer; and an
\* operation that found the client connected, or has just connected it, does
\* not end with "Not connected to ICAP server".
C40_ConnectionStateConsistent ==
    /\ [](HoldsWhatItSays)
    /\ [][(Call /\ AlreadyConnected') => ~FailsNotConnected']_vars

\* C40 witness: the first connection of a blocking client was lost in an
\* OSError of an operation; the next operation found is_connected False, opened
\* the second connection and went on to write its request on it.
C40_Witness ==
    /\ scope = "session" /\ flavor = "sync"
    /\ pc = "send" /\ ncalls = 1
    /\ connected /\ sock = 2 /\ live = {1, 2}


====
